---- MODULE Spec2Model ----
(***************************************************************************)
(* Retrieval pipeline of RAG-pdf-search-BE: result ranking and             *)
(* diversification, query refinement, answer synthesis, hybrid fusion and  *)
(* text chunking.                                                          *)
(*                                                                         *)
(* Strings are sequences of one-character strings.  Fractional numbers of  *)
(* the ranker are integers in thousandths (1.0 is 1000); the fusion scores *)
(* are exact rationals [n, d], with d = 0 standing for NaN.  An optional   *)
(* field is <<>> when absent and <<v>> when present.                       *)
(*                                                                         *)
(* Each component has its own specification (SpecRank, SpecDiv, ...): its  *)
(* Init draws nothing, its call action draws the inputs from bounded sets, *)
(* and the variables of the other components stay at their idle values.    *)
(***************************************************************************)
EXTENDS Integers, Sequences, FiniteSets, TLC

VARIABLES
    \* ResultRanker.calculateRelevanceScore
    rankPc, rankResult, rankQuery, relevanceScore,
    \* ResultRanker.diversifyResults
    divPc, divResults, maxSimilarity, diversified,
    \* QueryRefiner.generateQueryVariations
    refPc, originalQuery, refOutcome, queryVariations,
    \* DocumentSynthesizer.synthesizeResults
    synPc, synResults, synPrompt, synOutcome, synthesis,
    \* fuseSearchResults
    fusePc, vectorResults, keywordResults, vectorWeight, fuseLimit, fusedResults,
    \* chunkTextWithOverlap and enhancedChunkTextWithOverlap
    chunkPc, chunker, text, maxChunkSize, overlap, start, iteration, chunks,
    \* chunkBySentences, statement by statement
    sentences, sentenceIndex, currentChunk, currentLength,
    \* searchPDFContentAdvanced
    advPc, advLimit, enhancedQuery, queryEmbedding, vectorCall, keywordCall,
    advFused, advResults,
    \* enhancedSearchPDFContent
    enhPc, options, enhQueryVariations, searchIndex, allResults, uniqueResults,
    finalResults, enhSynthesis, enhRefineOutcome, enhSynthOutcome, enhFailure,
    \* storePDFInWeaviateParallel and enhancedStorePDFInWeaviate
    ingPc, chunkCount, batches, waveStart, batchRun, waveRejection, storedChunks,
    ingResult, ingError

rankVars == <<rankPc, rankResult, rankQuery, relevanceScore>>

divVars == <<divPc, divResults, maxSimilarity, diversified>>

refVars == <<refPc, originalQuery, refOutcome, queryVariations>>

synVars == <<synPc, synResults, synPrompt, synOutcome, synthesis>>

fuseVars == <<fusePc, vectorResults, keywordResults, vectorWeight, fuseLimit, fusedResults>>

chunkVars == <<chunkPc, chunker, text, maxChunkSize, overlap, start, iteration, chunks>>

sentVars == <<sentences, sentenceIndex, currentChunk, currentLength>>

advVars == <<advPc, advLimit, enhancedQuery, queryEmbedding, vectorCall, keywordCall,
             advFused, advResults>>

enhVars == <<enhPc, options, enhQueryVariations, searchIndex, allResults, uniqueResults,
             finalResults, enhSynthesis, enhRefineOutcome, enhSynthOutcome, enhFailure>>

ingVars == <<ingPc, chunkCount, batches, waveStart, batchRun, waveRejection, storedChunks,
             ingResult, ingError>>

vars == <<rankVars, divVars, refVars, synVars, fuseVars, chunkVars, sentVars, advVars,
          enhVars, ingVars>>

----------------------------------------------------------------------------
\* Generic helpers

None == <<>>

Some(v) == <<v>>

\* JavaScript truthiness of an optional number: present and not 0
Truthy(opt) == opt # None /\ opt[1] # 0

MinOf(a, b) == IF a <= b THEN a ELSE b

MaxOf(a, b) == IF a >= b THEN a ELSE b

SetMin(S) == CHOOSE x \in S : \A y \in S : x <= y

\* String.prototype.toLowerCase, on the letters the model uses
LowerChar(c) ==
    CASE c = "A" -> "a"
      [] c = "B" -> "b"
      [] c = "X" -> "x"
      [] OTHER -> c

ToLower(s) == [i \in 1..Len(s) |-> LowerChar(s[i])]

\* \s of a JavaScript regular expression, and what trim() removes
IsSpace(c) == c \in {" ", "\n"}

\* \w of a JavaScript regular expression
IsWordChar(c) == c \in {"a", "b", "c", "x", "A", "B", "X", "1", "2"}

\* \d of a JavaScript regular expression
IsDigit(c) == c \in {"1", "2"}

\* String.prototype.includes
Includes(s, t) ==
    \E i \in 0..(Len(s) - Len(t)) : SubSeq(s, i + 1, i + Len(t)) = t

RECURSIVE SplitWSFrom(_, _, _)
SplitWSFrom(s, i, cur) ==
    IF i > Len(s) THEN <<cur>>
    ELSE IF IsSpace(s[i])
         THEN IF i > 1 /\ IsSpace(s[i - 1])
              THEN SplitWSFrom(s, i + 1, cur)
              ELSE <<cur>> \o SplitWSFrom(s, i + 1, <<>>)
         ELSE SplitWSFrom(s, i + 1, Append(cur, s[i]))

\* s.split(/\s+/): the pieces between maximal whitespace runs; a leading or
\* trailing run leaves an empty piece, and "" splits into [""]
SplitWS(s) == SplitWSFrom(s, 1, <<>>)

\* String.prototype.trim
Trim(s) ==
    LET keep == {i \in 1..Len(s) : ~IsSpace(s[i])}
    IN  IF keep = {} THEN <<>>
        ELSE LET lo == CHOOSE i \in keep : \A j \in keep : i <= j
                 hi == CHOOSE i \in keep : \A j \in keep : i >= j
             IN  SubSeq(s, lo, hi)

----------------------------------------------------------------------------
\* ResultRanker.calculateRelevanceScore (scores in thousandths)

\* Math.min(score, 1.0), the final clamp
ClampScore(score) == MinOf(score, 1000)

calculateRelevanceScore(result, query) ==
    LET base == IF Truthy(result.distance) THEN 1000 - result.distance[1] ELSE 500
        queryWords == SplitWS(ToLower(query))
        contentWords == ToLower(result.content)
        keywordMatches ==
            Cardinality({i \in 1..Len(queryWords) : Includes(contentWords, queryWords[i])})
        s1 == base + (keywordMatches * 300) \div Len(queryWords)
        s2 == IF Truthy(result.importance) THEN s1 + (result.importance[1] * 200) \div 1000 ELSE s1
        s3 == IF Includes(contentWords, ToLower(query)) THEN s2 + 300 ELSE s2
        wordCount == IF Truthy(result.wordCount) THEN result.wordCount[1]
                     ELSE Len(SplitWS(result.content))
        s4 == IF wordCount < 20 \/ wordCount > 500 THEN (s3 * 8) \div 10 ELSE s3
    IN  ClampScore(s4)

\* Inputs of the ranker: store distances (cosine distance ranges over [0, 2]),
\* importance values, word counts, contents and queries
RankDistances == {None, Some(0), Some(200), Some(1000), Some(1500), Some(2000)}

RankImportances == {None, Some(0), Some(500), Some(1000)}

RankWordCounts == {None, Some(10), Some(100), Some(600)}

RankContents ==
    { <<>>,
      <<"a">>,
      <<"a", " ", "b">>,
      <<"b", " ", "A", " ", "b">>,
      <<"x", "a", "x">> }

RankQueries ==
    { <<>>,
      <<"a">>,
      <<"A", " ", "b">>,
      <<" ", "a">>,
      <<"c">>,
      <<"a", " ", "c", " ", "b">> }

RankIdle ==
    /\ rankPc = "idle"
    /\ rankResult = [distance |-> None, content |-> <<>>, importance |-> None, wordCount |-> None]
    /\ rankQuery = <<>>
    /\ relevanceScore = None

RankCall ==
    /\ rankPc = "idle"
    /\ \E d \in RankDistances, c \in RankContents, imp \in RankImportances,
          wc \in RankWordCounts, q \in RankQueries :
          LET result == [distance |-> d, content |-> c, importance |-> imp, wordCount |-> wc]
          IN  /\ rankResult' = result
              /\ rankQuery' = q
              /\ relevanceScore' = Some(calculateRelevanceScore(result, q))
    /\ rankPc' = "done"
    /\ UNCHANGED <<divVars, refVars, synVars, fuseVars, chunkVars, sentVars, advVars, enhVars, ingVars>>

RankNext == RankCall

----------------------------------------------------------------------------
\* ResultRanker.diversifyResults and calculateTextSimilarity

\* A JavaScript number that is a quotient of two counts: n / d, NaN when 0 / 0
Quot(n, d) == [n |-> n, d |-> d]

IsNaN(r) == r.d = 0

\* a > b on numbers; false when either side is NaN
NumGreater(a, b) == ~IsNaN(a) /\ ~IsNaN(b) /\ a.n * b.d > b.n * a.d

\* a < b on numbers; false when either side is NaN
NumLess(a, b) == ~IsNaN(a) /\ ~IsNaN(b) /\ a.n * b.d < b.n * a.d

\* text.match(/\b\w+\b/g) as a set: the maximal runs of word characters
WordRuns(s) ==
    { SubSeq(s, i, j) : <<i, j>> \in
        { <<i, j>> \in (1..Len(s)) \X (1..Len(s)) :
            /\ i <= j
            /\ \A k \in i..j : IsWordChar(s[k])
            /\ (i = 1 \/ ~IsWordChar(s[i - 1]))
            /\ (j = Len(s) \/ ~IsWordChar(s[j + 1])) } }

calculateTextSimilarity(text1, text2) ==
    LET words1 == WordRuns(ToLower(text1))
        words2 == WordRuns(ToLower(text2))
        intersection == words1 \cap words2
        union == words1 \cup words2
    IN  Quot(Cardinality(intersection), Cardinality(union))

\* The test of the inner loop: the candidate is rejected against one selected result
TooSimilar(candidate, selected, maxSim) ==
    NumGreater(calculateTextSimilarity(candidate.content, selected.content), maxSim)

RECURSIVE DiversifyFrom(_, _, _, _)
DiversifyFrom(results, i, acc, maxSim) ==
    IF i > Len(results) THEN acc
    ELSE LET candidate == results[i]
             shouldInclude == \A k \in 1..Len(acc) : ~TooSimilar(candidate, acc[k], maxSim)
         IN  DiversifyFrom(results, i + 1,
                           IF shouldInclude THEN Append(acc, candidate) ELSE acc, maxSim)

diversifyResults(results, maxSim) ==
    IF Len(results) <= 1 THEN results
    ELSE DiversifyFrom(results, 2, <<results[1]>>, maxSim)

\* Longest result list handed to the diversifier
MaxResults == 3

DivContents ==
    { <<>>,
      <<"-">>,
      <<"a">>,
      <<"A", " ", "b">>,
      <<"b">>,
      <<"a", " ", "b", " ", "c", " ", "x">>,
      <<"a", " ", "b", " ", "c", " ", "x", " ", "1">> }

\* maxSimilarity: the default 0.8, and 0.5
DivThresholds == {Quot(4, 5), Quot(1, 2)}

\* The result lists: result k carries its rank k as identity
DivInputs ==
    UNION { [1..n -> DivContents] : n \in 0..MaxResults }

DivIdle ==
    /\ divPc = "idle"
    /\ divResults = <<>>
    /\ maxSimilarity = Quot(4, 5)
    /\ diversified = <<>>

DivCall ==
    /\ divPc = "idle"
    /\ \E cs \in DivInputs, t \in DivThresholds :
          LET results == [k \in 1..Len(cs) |-> [rank |-> k, content |-> cs[k]]]
          IN  /\ divResults' = results
              /\ maxSimilarity' = t
              /\ diversified' = diversifyResults(results, t)
    /\ divPc' = "done"
    /\ UNCHANGED <<rankVars, refVars, synVars, fuseVars, chunkVars, sentVars, advVars, enhVars, ingVars>>

DivNext == DivCall

----------------------------------------------------------------------------
\* QueryRefiner.generateQueryVariations

\* What openai.chat.completions.create settles to: rejected (the call throws),
\* or resolved with choices[0].message.content present or absent
Rejected == [rejected |-> TRUE, content |-> None]

Resolved(content) == [rejected |-> FALSE, content |-> content]

RECURSIVE SplitOn(_, _, _, _)
SplitOn(s, sep, i, cur) ==
    IF i > Len(s) THEN <<cur>>
    ELSE IF s[i] = sep THEN <<cur>> \o SplitOn(s, sep, i + 1, <<>>)
         ELSE SplitOn(s, sep, i + 1, Append(cur, s[i]))

\* content.split('\n')
SplitLines(s) == SplitOn(s, "\n", 1, <<>>)

RECURSIVE JoinLines(_)
JoinLines(lines) ==
    IF Len(lines) = 0 THEN <<>>
    ELSE IF Len(lines) = 1 THEN lines[1]
         ELSE lines[1] \o <<"\n">> \o JoinLines(Tail(lines))

\* line.replace(/^\d+\.\s*/, ''): a leading run of digits, a dot and the
\* whitespace after it are removed; any other line is left as it is
StripNumbering(line) ==
    LET digits == {k \in 1..Len(line) : \A m \in 1..k : IsDigit(line[m])}
        nd == Cardinality(digits)
    IN  IF nd >= 1 /\ Len(line) > nd /\ line[nd + 1] = "."
        THEN LET spaces == {k \in (nd + 2)..Len(line) :
                               \A m \in (nd + 2)..k : IsSpace(line[m])}
             IN  SubSeq(line, nd + 2 + Cardinality(spaces), Len(line))
        ELSE line

\* Array.prototype.filter
RECURSIVE FilterNonBlank(_)
FilterNonBlank(lines) ==
    IF Len(lines) = 0 THEN <<>>
    ELSE IF Trim(lines[1]) # <<>>
         THEN <<lines[1]>> \o FilterNonBlank(Tail(lines))
         ELSE FilterNonBlank(Tail(lines))

\* Array.prototype.slice(0, n)
SliceTo(seq, n) == SubSeq(seq, 1, MinOf(n, Len(seq)))

\* The most variations kept from one response: .slice(0, 5)
MaxVariations == 5

KeepVariations_NoSlice(cleaned) == cleaned

\* .slice(0, 5) of the cleaned lines
KeepVariations(cleaned) == SliceTo(cleaned, MaxVariations)

\* content?.split('\n').filter(...).map(...).slice(0, 5) || []
ParseVariations(content) ==
    IF content = None THEN <<>>
    ELSE LET kept == FilterNonBlank(SplitLines(content[1]))
             cleaned == [k \in 1..Len(kept) |-> Trim(StripNumbering(kept[k]))]
         IN  KeepVariations(cleaned)

VariationsOnFailure_Empty(query) == <<>>

\* The value returned from the catch block
VariationsOnFailure(query) == <<query>>

generateQueryVariations(query, outcome) ==
    IF outcome.rejected THEN VariationsOnFailure(query)
    ELSE <<query>> \o ParseVariations(outcome.content)

\* Most lines in one response of the collaborator
MaxLines == 6

RefLines ==
    { <<"a">>,
      <<"A">>,
      <<"1", ".", " ", "b">>,
      <<" ">> }

RefQueries == { <<"a">>, <<"A", " ", "b">> }

\* The responses: no content, or up to MaxLines lines joined by newlines
RefContents ==
    {None} \cup
    { Some(JoinLines(ls)) : ls \in UNION { [1..n -> RefLines] : n \in 0..MaxLines } }

RefIdle ==
    /\ refPc = "idle"
    /\ originalQuery = <<>>
    /\ refOutcome = Rejected
    /\ queryVariations = <<>>

\* The call up to the await of the completion
RefCall ==
    /\ refPc = "idle"
    /\ \E q \in RefQueries : originalQuery' = q
    /\ refPc' = "awaiting"
    /\ UNCHANGED <<refOutcome, queryVariations>>
    /\ UNCHANGED <<rankVars, divVars, synVars, fuseVars, chunkVars, sentVars, advVars, enhVars, ingVars>>

\* The completion resolves: the try block runs to its return
RefResolve ==
    /\ refPc = "awaiting"
    /\ \E c \in RefContents :
          /\ refOutcome' = Resolved(c)
          /\ queryVariations' = generateQueryVariations(originalQuery, Resolved(c))
    /\ refPc' = "done"
    /\ UNCHANGED originalQuery
    /\ UNCHANGED <<rankVars, divVars, synVars, fuseVars, chunkVars, sentVars, advVars, enhVars, ingVars>>

\* The completion rejects: the catch block returns
RefReject ==
    /\ refPc = "awaiting"
    /\ refOutcome' = Rejected
    /\ queryVariations' = generateQueryVariations(originalQuery, Rejected)
    /\ refPc' = "done"
    /\ UNCHANGED originalQuery
    /\ UNCHANGED <<rankVars, divVars, synVars, fuseVars, chunkVars, sentVars, advVars, enhVars, ingVars>>

RefNext == RefCall \/ RefResolve \/ RefReject

----------------------------------------------------------------------------
\* DocumentSynthesizer.synthesizeResults

\* result.filename || 'unknown'
DocKey(result) ==
    IF (IF result.filename = None THEN TRUE ELSE result.filename[1] = <<>>)
    THEN <<"u", "n", "k", "n", "o", "w", "n">>
    ELSE result.filename[1]

\* Longest content excerpt per document in the prompt: content.substring(0, 1000)
MaxExcerpt == 1000

RECURSIVE JoinWith(_, _)
JoinWith(parts, sep) ==
    IF Len(parts) = 0 THEN <<>>
    ELSE IF Len(parts) = 1 THEN parts[1]
         ELSE parts[1] \o sep \o JoinWith(Tail(parts), sep)

\* The keys of docGroups in insertion order: each document once, at its
\* first result
RECURSIVE DocKeys(_, _)
DocKeys(results, seen) ==
    IF Len(results) = 0 THEN <<>>
    ELSE LET key == DocKey(results[1])
         IN  IF key \in seen THEN DocKeys(Tail(results), seen)
             ELSE <<key>> \o DocKeys(Tail(results), seen \cup {key})

\* Array.prototype.filter, to the results of one document
RECURSIVE ChunksOf(_, _)
ChunksOf(results, key) ==
    IF Len(results) = 0 THEN <<>>
    ELSE IF DocKey(results[1]) = key
         THEN <<results[1].content>> \o ChunksOf(Tail(results), key)
         ELSE ChunksOf(Tail(results), key)

\* The synthesis prompt: per document, its name and the first 1000
\* characters of its chunks' contents joined by blank lines
SynthesisPrompt(results) ==
    LET keys == DocKeys(results, {})
    IN  [k \in 1..Len(keys) |->
            [filename |-> keys[k],
             content |-> SliceTo(JoinWith(ChunksOf(results, keys[k]), <<"\n", "\n">>),
                                 MaxExcerpt)]]

\* if (!results || results.length === 0) return null
NothingToSynthesize(results) ==
    IF results = None THEN TRUE ELSE Len(results[1]) = 0

SynthesisReturn_ErrorText(outcome) ==
    IF outcome.rejected THEN Some(<<"e">>) ELSE outcome.content

\* The value returned once the completion has settled: null from the catch
\* block, else completion.choices?.[0]?.message?.content (absent, or the
\* content as it is).  null and undefined are both None.
SynthesisReturn(outcome) ==
    IF outcome.rejected THEN None ELSE outcome.content

\* Longest result list handed to the synthesizer
MaxSynResults == 2

SynFilenames == {None, Some(<<"f">>), Some(<<"g">>)}

SynChunkContents == { <<"a">>, <<"b">> }

SynResultLists ==
    UNION { [1..n -> [filename : SynFilenames, content : SynChunkContents]] :
            n \in 0..MaxSynResults }

\* The answers of the collaborator: absent, empty, or a text
SynAnswers == {None, Some(<<>>), Some(<<"a">>)}

SynIdle ==
    /\ synPc = "idle"
    /\ synResults = None
    /\ synPrompt = <<>>
    /\ synOutcome = Rejected
    /\ synthesis = None

\* The call with nothing to synthesize returns null at once
SynCallEmpty ==
    /\ synPc = "idle"
    /\ \E rs \in {None, Some(<<>>)} :
          /\ NothingToSynthesize(rs)
          /\ synResults' = rs
    /\ synthesis' = None
    /\ synPc' = "done"
    /\ UNCHANGED <<synPrompt, synOutcome>>
    /\ UNCHANGED <<rankVars, divVars, refVars, fuseVars, chunkVars, sentVars, advVars, enhVars, ingVars>>

\* The call with results builds the prompt and awaits the completion
SynCall ==
    /\ synPc = "idle"
    /\ \E rs \in SynResultLists :
          /\ ~NothingToSynthesize(Some(rs))
          /\ synResults' = Some(rs)
          /\ synPrompt' = SynthesisPrompt(rs)
    /\ synPc' = "awaiting"
    /\ UNCHANGED <<synOutcome, synthesis>>
    /\ UNCHANGED <<rankVars, divVars, refVars, fuseVars, chunkVars, sentVars, advVars, enhVars, ingVars>>

\* The completion resolves
SynResolve ==
    /\ synPc = "awaiting"
    /\ \E c \in SynAnswers :
          /\ synOutcome' = Resolved(c)
          /\ synthesis' = SynthesisReturn(Resolved(c))
    /\ synPc' = "done"
    /\ UNCHANGED <<synResults, synPrompt>>
    /\ UNCHANGED <<rankVars, divVars, refVars, fuseVars, chunkVars, sentVars, advVars, enhVars, ingVars>>

\* The completion rejects
SynReject ==
    /\ synPc = "awaiting"
    /\ synOutcome' = Rejected
    /\ synthesis' = SynthesisReturn(Rejected)
    /\ synPc' = "done"
    /\ UNCHANGED <<synResults, synPrompt>>
    /\ UNCHANGED <<rankVars, divVars, refVars, fuseVars, chunkVars, sentVars, advVars, enhVars, ingVars>>

SynNext == SynCallEmpty \/ SynCall \/ SynResolve \/ SynReject

----------------------------------------------------------------------------
\* fuseSearchResults.  Raw scores are integers (certainties in tenths); the
\* normalized and hybrid scores are exact rationals, NaN being 0 / 0.

RECURSIVE GCD(_, _)
GCD(a, b) == IF b = 0 THEN a ELSE GCD(b, a % b)

NaN == Quot(0, 0)

\* The number n / d in lowest terms; 0 / 0 is NaN
Ratio(n, d) ==
    IF d = 0 THEN NaN
    ELSE LET g == GCD(n, d) IN Quot(n \div g, d \div g)

NumMul(a, b) == IF IsNaN(a) \/ IsNaN(b) THEN NaN ELSE Ratio(a.n * b.n, a.d * b.d)

NumAdd(a, b) == IF IsNaN(a) \/ IsNaN(b) THEN NaN ELSE Ratio(a.n * b.d + b.n * a.d, a.d * b.d)

Zero == Ratio(0, 1)

One == Ratio(1, 1)

\* result._additional?.certainty || 0, result._additional?.score || 0
RawScore(result) == IF Truthy(result.raw) THEN result.raw[1] ELSE 0

\* Math.max(...results.map(raw score)): None (for -Infinity) on an empty list
RECURSIVE MaxRawScore(_)
MaxRawScore(results) ==
    IF Len(results) = 0 THEN None
    ELSE LET rest == MaxRawScore(Tail(results))
             head == RawScore(results[1])
         IN  IF rest = None THEN Some(head) ELSE Some(MaxOf(head, rest[1]))

NormalizedVectorScore_Raw(result, maxCertainty) == Ratio(RawScore(result), 10)

\* (result._additional?.certainty || 0) / maxCertainty
NormalizedVectorScore(result, maxCertainty) == Ratio(RawScore(result), maxCertainty[1])

\* maxBM25Score > 0 ? (result._additional?.score || 0) / maxBM25Score : 0
NormalizedKeywordScore(result, maxBM25Score) ==
    IF Truthy(maxBM25Score) /\ maxBM25Score[1] > 0
    THEN Ratio(RawScore(result), maxBM25Score[1])
    ELSE Zero

MapIndex_Missing(resultMap, key) == 0

\* Position of a key in the Map's value sequence, 0 when the Map lacks it
MapIndex(resultMap, key) ==
    IF \E k \in 1..Len(resultMap) : resultMap[k].key = key
    THEN CHOOSE k \in 1..Len(resultMap) : resultMap[k].key = key
    ELSE 0

\* Map.prototype.set: a new key is appended, an existing key keeps its place
MapSet(resultMap, entry) ==
    LET k == MapIndex(resultMap, entry.key)
    IN  IF k = 0 THEN Append(resultMap, entry)
        ELSE [resultMap EXCEPT ![k] = entry]

\* The first forEach: one entry per vector result
RECURSIVE AddVectorResults(_, _, _, _, _)
AddVectorResults(resultMap, results, index, maxCertainty, weight) ==
    IF index > Len(results) THEN resultMap
    ELSE LET normalizedScore == NormalizedVectorScore(results[index], maxCertainty)
             entry == [key |-> results[index].key,
                       raw |-> results[index].raw,
                       hybridScore |-> NumMul(normalizedScore, weight),
                       vectorScore |-> normalizedScore,
                       keywordScore |-> Zero,
                       vectorRank |-> Some(index),
                       keywordRank |-> None]
         IN  AddVectorResults(MapSet(resultMap, entry), results, index + 1,
                              maxCertainty, weight)

\* The second forEach: merge into the entry of the same key, or add a
\* keyword-only entry
RECURSIVE MergeKeywordResults(_, _, _, _, _)
MergeKeywordResults(resultMap, results, index, maxBM25Score, keywordWeight) ==
    IF index > Len(results) THEN resultMap
    ELSE LET normalizedScore == NormalizedKeywordScore(results[index], maxBM25Score)
             k == MapIndex(resultMap, results[index].key)
             merged ==
                 IF k # 0
                 THEN [resultMap EXCEPT
                         ![k].hybridScore = NumAdd(@, NumMul(normalizedScore, keywordWeight)),
                         ![k].keywordScore = normalizedScore,
                         ![k].keywordRank = Some(index)]
                 ELSE Append(resultMap,
                             [key |-> results[index].key,
                              raw |-> results[index].raw,
                              hybridScore |-> NumMul(normalizedScore, keywordWeight),
                              vectorScore |-> Zero,
                              keywordScore |-> normalizedScore,
                              vectorRank |-> None,
                              keywordRank |-> Some(index)])
         IN  MergeKeywordResults(merged, results, index + 1, maxBM25Score, keywordWeight)

\* The Map before the sort
FuseMap(vResults, kResults, weight) ==
    LET keywordWeight == NumAdd(One, NumMul(Ratio(-1, 1), weight))
        afterVector == AddVectorResults(<<>>, vResults, 1, MaxRawScore(vResults), weight)
    IN  MergeKeywordResults(afterVector, kResults, 1, MaxRawScore(kResults), keywordWeight)

\* The comparator (a, b) => b.hybridScore - a.hybridScore puts a before b
\* when it is negative; with a NaN score it is NaN, which sorts as 0
SortsBefore(a, b) == NumGreater(a.hybridScore, b.hybridScore)

InsertSorted_TiesFirst(sorted, entry) ==
    LET before == {k \in 1..Len(sorted) : SortsBefore(sorted[k], entry)}
        n == Cardinality(before)
    IN  SubSeq(sorted, 1, n) \o <<entry>> \o SubSeq(sorted, n + 1, Len(sorted))

\* One insertion of the stable sort: the entry goes behind every entry that
\* does not sort after it
InsertSorted(sorted, entry) ==
    LET after == {k \in 1..Len(sorted) : SortsBefore(entry, sorted[k])}
        n == Len(sorted) - Cardinality(after)
    IN  SubSeq(sorted, 1, n) \o <<entry>> \o SubSeq(sorted, n + 1, Len(sorted))

RECURSIVE StableSort(_, _)
StableSort(sorted, entries) ==
    IF Len(entries) = 0 THEN sorted
    ELSE StableSort(InsertSorted(sorted, entries[1]), Tail(entries))

\* The comparator is a consistent ordering unless NaN scores are mixed with
\* numbers
ConsistentComparator(entries) ==
    \/ \A k \in 1..Len(entries) : ~IsNaN(entries[k].hybridScore)
    \/ \A k \in 1..Len(entries) : IsNaN(entries[k].hybridScore)

Reorderings(entries) ==
    { [k \in 1..Len(entries) |-> entries[p[k]]] :
        p \in { q \in [1..Len(entries) -> 1..Len(entries)] :
                   \A i, j \in 1..Len(entries) : i # j => q[i] # q[j] } }

\* Array.prototype.sort: stable under a consistent comparator, and an
\* implementation-defined order of the same entries otherwise
SortOutcomes(entries) ==
    IF ConsistentComparator(entries) THEN {StableSort(<<>>, entries)}
    ELSE Reorderings(entries)

\* The lists fuseSearchResults can return
fuseSearchResults(vResults, kResults, weight, limit) ==
    { SliceTo(sorted, limit) : sorted \in SortOutcomes(FuseMap(vResults, kResults, weight)) }

\* Longest list returned by one store query
MaxListLen == 2

FuseKeys == {"a", "b", "c"}

\* Certainties in tenths, and BM25 scores
VectorScores == {0, 5, 9}

KeywordScores == {0, 5, 10}

\* The ranked lists a store query returns: distinct chunks, scores
\* non-increasing
RankedLists(scores) ==
    { l \in UNION { [1..n -> [key : FuseKeys, raw : {Some(x) : x \in scores}]] :
                     n \in 0..MaxListLen } :
        /\ \A i, j \in 1..Len(l) : i # j => l[i].key # l[j].key
        /\ \A i \in 1..(Len(l) - 1) : l[i].raw[1] >= l[i + 1].raw[1] }

FuseWeights == {Ratio(7, 10), Ratio(3, 10), One}

FuseLimits == {1, 2, 3}

FuseIdle ==
    /\ fusePc = "idle"
    /\ vectorResults = <<>>
    /\ keywordResults = <<>>
    /\ vectorWeight = Ratio(7, 10)
    /\ fuseLimit = 5
    /\ fusedResults = <<>>

\* fuseSearchResults on a vector list and a lexical list
FuseCall ==
    /\ fusePc = "idle"
    /\ \E v \in RankedLists(VectorScores), k \in RankedLists(KeywordScores),
          w \in FuseWeights, limit \in FuseLimits :
          /\ vectorResults' = v
          /\ keywordResults' = k
          /\ vectorWeight' = w
          /\ fuseLimit' = limit
          /\ fusedResults' \in fuseSearchResults(v, k, w, limit)
    /\ fusePc' = "done"
    /\ UNCHANGED <<rankVars, divVars, refVars, synVars, chunkVars, sentVars, advVars, enhVars, ingVars>>

\* fuseSearchResults(L, L, 1, limit): one ranked list given as both lists
FuseSameList ==
    /\ fusePc = "idle"
    /\ \E l \in RankedLists(VectorScores) \cup RankedLists(KeywordScores),
          limit \in FuseLimits :
          /\ vectorResults' = l
          /\ keywordResults' = l
          /\ vectorWeight' = One
          /\ fuseLimit' = limit
          /\ fusedResults' \in fuseSearchResults(l, l, One, limit)
    /\ fusePc' = "doneSame"
    /\ UNCHANGED <<rankVars, divVars, refVars, synVars, chunkVars, sentVars, advVars, enhVars, ingVars>>

FuseNext == FuseCall \/ FuseSameList

----------------------------------------------------------------------------
\* The fixed-window chunkers chunkTextWithOverlap ("basic") and
\* enhancedChunkTextWithOverlap ("enhanced").  Offsets are the 0-based
\* JavaScript offsets: the character at offset i is text[i + 1].  One action
\* is one iteration of the while loop; iteration counts the iterations, and
\* each chunk records the iteration that emitted it.

\* text[i]
CharAt(t, i) == t[i + 1]

\* text.slice(from, to), for 0 <= from: a negative to counts from the end of
\* the text
Slice(t, from, to) ==
    LET stop == IF to < 0 THEN MaxOf(Len(t) + to, 0) ELSE MinOf(to, Len(t))
    IN  IF stop <= from THEN <<>> ELSE SubSeq(t, from + 1, stop)

\* Math.min(start + maxChunkSize, text.length)
WindowEnd(t, from, size) == MinOf(from + size, Len(t))

\* i > start + maxChunkSize * 0.5
PastHalf(i, from, size) == 2 * i > 2 * from + size

\* sentenceEnds of chunkTextWithOverlap
IsSentenceEnd(c) == c \in {".", "!", "?", "\n"}

\* The scan of chunkTextWithOverlap from offset end downwards: the offset
\* behind the last sentence end past the half of the window, or -1
BasicBestBreak(t, from, end, size) ==
    LET found == {i \in 0..end : PastHalf(i, from, size) /\ IsSentenceEnd(CharAt(t, i))}
    IN  IF found = {} THEN -1
        ELSE (CHOOSE i \in found : \A j \in found : j <= i) + 1

\* breakPoints of enhancedChunkTextWithOverlap, in their order
BreakPoints ==
    << <<"\n", "\n">>, <<".", " ">>, <<"!", " ">>, <<"?", " ">>, <<"\n">> >>

\* text.lastIndexOf(breakPoint, end): the last offset <= end at which the
\* break point occurs, or -1; a negative end is taken as 0
LastIndexOf(t, bp, end) ==
    LET found == {i \in 0..MinOf(MaxOf(end, 0), Len(t) - Len(bp)) :
                     SubSeq(t, i + 1, i + Len(bp)) = bp}
    IN  IF found = {} THEN -1
        ELSE CHOOSE i \in found : \A j \in found : j <= i

\* The for loop over the break points: the first kind whose last occurrence
\* lies past the half of the window decides
RECURSIVE EnhancedBestBreak(_, _, _, _, _)
EnhancedBestBreak(t, from, end, size, k) ==
    IF k > Len(BreakPoints) THEN -1
    ELSE LET breakIndex == LastIndexOf(t, BreakPoints[k], end)
         IN  IF PastHalf(breakIndex, from, size)
             THEN breakIndex + Len(BreakPoints[k])
             ELSE EnhancedBestBreak(t, from, end, size, k + 1)

\* The end of the window that starts at from, snapped to a break point
ChunkEnd(kind, t, from, size) ==
    LET end == WindowEnd(t, from, size)
    IN  IF end < Len(t)
        THEN LET bestBreak == IF kind = "basic"
                              THEN BasicBestBreak(t, from, end, size)
                              ELSE EnhancedBestBreak(t, from, end, size, 1)
             IN  IF bestBreak > -1 THEN bestBreak ELSE end
        ELSE end

\* Shortest trimmed text that is not dropped is one character longer
MinChunkText == 50

\* if (chunkText.length > 50)
IsMeaningful(chunkText) == Len(chunkText) > MinChunkText

NextStart_WithoutProgress(from, end, lap) == end - lap

NextStart_OneLess(from, end, lap) == MaxOf(from + 1, end - lap - 1)

\* start = Math.max(start + 1, end - overlap)
NextStart(from, end, lap) == MaxOf(from + 1, end - lap)

\* Length of one piece of the input texts
PieceLen == 60

\* Most pieces in one input text
MaxPieces == 3

RunOf(c, n) == [i \in 1..n |-> c]

\* The state keeps a long string as its runs <<character, length>>;
\* Chars gives the string itself
Runs(str) ==
    LET heads == {i \in 1..Len(str) : IF i = 1 THEN TRUE ELSE str[i] # str[i - 1]}
        head(k) == CHOOSE i \in heads : Cardinality({j \in heads : j <= i}) = k
        stop(k) == IF k = Cardinality(heads) THEN Len(str) ELSE head(k + 1) - 1
    IN  [k \in 1..Cardinality(heads) |-> <<str[head(k)], stop(k) - head(k) + 1>>]

RECURSIVE Chars(_)
Chars(runs) ==
    IF Len(runs) = 0 THEN <<>>
    ELSE RunOf(runs[1][1], runs[1][2]) \o Chars(Tail(runs))

\* The pieces texts are made of: a run of letters, a run of blanks, a
\* sentence closed by ". ", a line closed by a newline
Pieces ==
    { RunOf("x", PieceLen),
      RunOf(" ", PieceLen),
      RunOf("x", PieceLen - 2) \o <<".", " ">>,
      RunOf("x", PieceLen - 1) \o <<"\n">> }

RECURSIVE Concat(_)
Concat(parts) == IF Len(parts) = 0 THEN <<>> ELSE parts[1] \o Concat(Tail(parts))

ChunkTexts ==
    { Concat(ps) : ps \in UNION { [1..n -> Pieces] : n \in 0..MaxPieces } }

\* <<maxChunkSize, overlap>>
ChunkConfigs == { <<60, 0>>, <<60, 20>>, <<100, 55>>, <<80, 30>> }

ChunkIdle ==
    /\ chunkPc = "idle"
    /\ chunker = "basic"
    /\ text = <<>>
    /\ maxChunkSize = 1000
    /\ overlap = 100
    /\ start = 0
    /\ iteration = 0
    /\ chunks = <<>>

\* The call: chunks = [], start = 0
ChunkCall ==
    /\ chunkPc = "idle"
    /\ \E kind \in {"basic", "enhanced"}, t \in ChunkTexts, cfg \in ChunkConfigs :
          /\ chunker' = kind
          /\ text' = Runs(t)
          /\ maxChunkSize' = cfg[1]
          /\ overlap' = cfg[2]
    /\ start' = 0
    /\ iteration' = 0
    /\ chunks' = <<>>
    /\ chunkPc' = "loop"
    /\ UNCHANGED <<rankVars, divVars, refVars, synVars, fuseVars, sentVars, advVars, enhVars, ingVars>>

\* One iteration of the while loop, with the break at its end
ChunkIterate ==
    /\ chunkPc = "loop"
    /\ LET t == Chars(text)
           end == ChunkEnd(chunker, t, start, maxChunkSize)
           chunkText == Trim(Slice(t, start, end))
           next == NextStart(start, end, overlap)
       IN  /\ start < Len(t)
           /\ chunks' = IF IsMeaningful(chunkText)
                         THEN Append(chunks, [text |-> Runs(chunkText), start |-> start,
                                              end |-> end, iteration |-> iteration + 1])
                         ELSE chunks
           /\ start' = next
           /\ chunkPc' = IF next >= Len(t) THEN "done" ELSE "loop"
    /\ iteration' = iteration + 1
    /\ UNCHANGED <<chunker, text, maxChunkSize, overlap>>
    /\ UNCHANGED <<rankVars, divVars, refVars, synVars, fuseVars, sentVars, advVars, enhVars, ingVars>>

\* The while condition fails: return chunks
ChunkReturn ==
    /\ chunkPc = "loop"
    /\ ~(start < Len(Chars(text)))
    /\ chunkPc' = "done"
    /\ UNCHANGED <<chunker, text, maxChunkSize, overlap, start, iteration, chunks>>
    /\ UNCHANGED <<rankVars, divVars, refVars, synVars, fuseVars, sentVars, advVars, enhVars, ingVars>>

----------------------------------------------------------------------------
\* chunkBySentences.  A sentence is kept with the source span [from, to) of
\* its match, and a chunk with the spans of its sentences (spans); the code
\* itself keeps only the texts.

\* The characters [\.!?] of the sentence pattern
IsTerminator(c) == c \in {".", "!", "?"}

\* The matches of /[^\.!?]+[\.!?]+/g from offset p on: a maximal run of
\* other characters followed by a maximal run of terminators
RECURSIVE MatchSentences(_, _)
MatchSentences(t, p) ==
    LET starts == {i \in p..(Len(t) - 1) : ~IsTerminator(CharAt(t, i))}
    IN  IF starts = {} THEN <<>>
        ELSE LET s == SetMin(starts)
                 terms == {i \in s..(Len(t) - 1) : IsTerminator(CharAt(t, i))}
             IN  IF terms = {} THEN <<>>
                 ELSE LET tm == SetMin(terms)
                          others == {i \in tm..(Len(t) - 1) : ~IsTerminator(CharAt(t, i))}
                          e == IF others = {} THEN Len(t) ELSE SetMin(others)
                      IN  <<[from |-> s, to |-> e]>> \o MatchSentences(t, e)

\* text.match(/[^\.!?]+[\.!?]+/g) || [text], each sentence trimmed
Sentences(t) ==
    LET matches == MatchSentences(t, 0)
        found == IF matches = <<>> THEN <<[from |-> 0, to |-> Len(t)]>> ELSE matches
    IN  [k \in 1..Len(found) |->
            [text |-> Trim(Slice(t, found[k].from, found[k].to)),
             from |-> found[k].from, to |-> found[k].to]]

\* currentChunk.join(' ')
JoinSentences(cur) == JoinWith([k \in 1..Len(cur) |-> cur[k].text], <<" ">>)

\* The chunk pushed for currentChunk: its offsets continue the previous
\* chunk's end by the length of the chunk text
SentenceChunk(acc, cur) ==
    LET prevEnd == IF Len(acc) = 0 THEN 0 ELSE acc[Len(acc)].end
        pushed == { [text |-> Runs(chunkText),
                     start |-> prevEnd,
                     end |-> prevEnd + Len(chunkText),
                     sentenceCount |-> Len(cur),
                     spans |-> [k \in 1..Len(cur) |-> <<cur[k].from, cur[k].to>>]] :
                    chunkText \in {Trim(JoinSentences(cur))} }
    IN  CHOOSE chunk \in pushed : TRUE

\* The for loop over the sentences and the final push
RECURSIVE SentenceLoop(_, _, _, _, _, _, _)
SentenceLoop(sents, i, size, lapS, acc, cur, curLen) ==
    IF i > Len(sents)
    THEN IF Len(cur) > 0 THEN Append(acc, SentenceChunk(acc, cur)) ELSE acc
    ELSE LET sentenceLength == Len(sents[i].text)
         IN  IF curLen + sentenceLength > size /\ Len(cur) > 0
             THEN LET overlapStart == MaxOf(0, Len(cur) - lapS)
                      kept == SubSeq(cur, overlapStart + 1, Len(cur))
                  IN  SentenceLoop(sents, i + 1, size, lapS,
                                   Append(acc, SentenceChunk(acc, cur)),
                                   Append(kept, sents[i]),
                                   Len(JoinSentences(kept)) + sentenceLength)
             ELSE SentenceLoop(sents, i + 1, size, lapS, acc,
                               Append(cur, sents[i]), curLen + sentenceLength)

chunkBySentences(t, size, lapS) == SentenceLoop(Sentences(t), 1, size, lapS, <<>>, <<>>, 0)

\* <<maxChunkSize, overlapSentences>>
SentenceConfigs == { <<60, 1>>, <<130, 2>>, <<130, 0>> }

\* chunkBySentences, from call to return
SentencesCall ==
    /\ chunkPc = "idle"
    /\ \E t \in ChunkTexts, cfg \in SentenceConfigs :
          /\ text' = Runs(t)
          /\ maxChunkSize' = cfg[1]
          /\ overlap' = cfg[2]
          /\ chunks' = chunkBySentences(t, cfg[1], cfg[2])
    /\ chunker' = "sentences"
    /\ chunkPc' = "done"
    /\ UNCHANGED <<start, iteration>>
    /\ UNCHANGED <<rankVars, divVars, refVars, synVars, fuseVars, sentVars, advVars, enhVars, ingVars>>

ChunkNext == ChunkCall \/ ChunkIterate \/ ChunkReturn \/ SentencesCall

\* Texts of at most one piece, for the calls whose windows move by one
\* character
OnePieceTexts == { <<>> } \cup Pieces

\* <<maxChunkSize, overlap>> with overlap >= maxChunkSize or maxChunkSize <= 0
UncheckedConfigs == { <<60, 60>>, <<60, 100>>, <<0, 0>>, <<0, 20>>, <<-5, 0>>, <<-5, -20>> }

\* The call with such arguments: the function has no statement before
\* chunks = [], start = 0
ChunkCallUnchecked ==
    /\ chunkPc = "idle"
    /\ \E kind \in {"basic", "enhanced"}, t \in OnePieceTexts, cfg \in UncheckedConfigs :
          /\ chunker' = kind
          /\ text' = Runs(t)
          /\ maxChunkSize' = cfg[1]
          /\ overlap' = cfg[2]
    /\ start' = 0
    /\ iteration' = 0
    /\ chunks' = <<>>
    /\ chunkPc' = "loop"
    /\ UNCHANGED <<rankVars, divVars, refVars, synVars, fuseVars, sentVars, advVars, enhVars, ingVars>>

UncheckedNext == ChunkCallUnchecked \/ ChunkIterate \/ ChunkReturn

----------------------------------------------------------------------------
\* chunkBySentences, one action per iteration of its for loop.  The call
\* shares text, maxChunkSize, overlap (overlapSentences) and chunks with the
\* chunkers above; sentenceIndex is the loop variable i.

\* Most pieces in one short text
MaxSentencePieces == 4

\* Short pieces: terminated sentences, an unterminated word, a blank
ShortPieces ==
    { <<"a", ".">>, <<" ", "b", "!", "?", " ">>, <<"x">>, <<" ">> }

ShortTexts ==
    { Concat(ps) : ps \in UNION { [1..n -> ShortPieces] : n \in 0..MaxSentencePieces } }

\* <<maxChunkSize, overlapSentences>> for the short texts
ShortConfigs == { <<5, 1>>, <<2, 1>>, <<7, 0>> }

SentIdle ==
    /\ sentences = <<>>
    /\ sentenceIndex = 0
    /\ currentChunk = <<>>
    /\ currentLength = 0

\* Lines 4-8: the sentences are split, chunks = [], currentChunk = []
SentencesStart ==
    /\ chunkPc = "idle"
    /\ \E t \in ShortTexts, cfg \in ShortConfigs :
          /\ text' = Runs(t)
          /\ sentences' = Sentences(t)
          /\ maxChunkSize' = cfg[1]
          /\ overlap' = cfg[2]
    /\ chunker' = "sentences"
    /\ chunks' = <<>>
    /\ sentenceIndex' = 0
    /\ currentChunk' = <<>>
    /\ currentLength' = 0
    /\ chunkPc' = "sentLoop"
    /\ UNCHANGED <<start, iteration>>
    /\ UNCHANGED <<rankVars, divVars, refVars, synVars, fuseVars, advVars, enhVars, ingVars>>

\* One iteration of the for loop, i++ included
SentencesIterate ==
    /\ chunkPc = "sentLoop"
    /\ sentenceIndex < Len(sentences)
    /\ LET sentence == sentences[sentenceIndex + 1]
           sentenceLength == Len(sentence.text)
           full == IF currentLength + sentenceLength > maxChunkSize
                   THEN Len(currentChunk) > 0 ELSE FALSE
           overlapStart == MaxOf(0, Len(currentChunk) - overlap)
           kept == IF full
                   THEN SubSeq(currentChunk, overlapStart + 1, Len(currentChunk))
                   ELSE currentChunk
       IN  /\ chunks' = IF full
                         THEN Append(chunks, SentenceChunk(chunks, currentChunk))
                         ELSE chunks
           /\ currentChunk' = Append(kept, sentence)
           /\ currentLength' = (IF full THEN Len(JoinSentences(kept)) ELSE currentLength)
                                  + sentenceLength
    /\ sentenceIndex' = sentenceIndex + 1
    /\ UNCHANGED <<chunkPc, chunker, text, maxChunkSize, overlap, start, iteration, sentences>>
    /\ UNCHANGED <<rankVars, divVars, refVars, synVars, fuseVars, advVars, enhVars, ingVars>>

FinalPush_Dropped(acc, cur) == acc

\* if (currentChunk.length > 0) chunks.push(...)
FinalPush(acc, cur) == IF Len(cur) > 0 THEN Append(acc, SentenceChunk(acc, cur)) ELSE acc

\* The loop condition fails: the final chunk is pushed and chunks returned
SentencesFinish ==
    /\ chunkPc = "sentLoop"
    /\ sentenceIndex >= Len(sentences)
    /\ chunks' = FinalPush(chunks, currentChunk)
    /\ chunkPc' = "done"
    /\ UNCHANGED <<chunker, text, maxChunkSize, overlap, start, iteration>>
    /\ UNCHANGED sentVars
    /\ UNCHANGED <<rankVars, divVars, refVars, synVars, fuseVars, advVars, enhVars, ingVars>>

SentNext == SentencesStart \/ SentencesIterate \/ SentencesFinish

----------------------------------------------------------------------------
\* searchPDFContentAdvanced.  A collaborator call is a record of its state
\* ("idle", "pending", "resolved", "rejected") and, once resolved, its data:
\* for a store query the list data.Get.PDFDocument, None when the store
\* gives no list.

CallIdle == [state |-> "idle", data |-> None]

CallPending == [state |-> "pending", data |-> None]

CallRejected == [state |-> "rejected", data |-> None]

CallResolved(data) == [state |-> "resolved", data |-> data]

\* Responses of the vector query: data.Get.PDFDocument
StoreVectorData ==
    { None, Some(<<>>),
      Some(<<[key |-> "a", raw |-> Some(9)]>>),
      Some(<<[key |-> "a", raw |-> Some(9)], [key |-> "b", raw |-> Some(5)]>>) }

\* Responses of the BM25 query
StoreKeywordData ==
    { None, Some(<<>>),
      Some(<<[key |-> "b", raw |-> Some(10)]>>),
      Some(<<[key |-> "b", raw |-> Some(10)], [key |-> "c", raw |-> Some(5)]>>) }

AdvLimits == {1, 5}

\* x.data.Get.PDFDocument || []
ListOrEmpty(call) == IF call.data = None THEN <<>> ELSE call.data[1]

\* Promise.all rejects as soon as one of its promises rejects
PromiseAllRejected(v, k) == IF v.state = "rejected" THEN TRUE ELSE k.state = "rejected"

PromiseAllResolved_Settled(v, k) ==
    IF v.state \in {"resolved", "rejected"} THEN k.state \in {"resolved", "rejected"}
    ELSE FALSE

\* Promise.all resolves once every promise has resolved
PromiseAllResolved(v, k) == IF v.state = "resolved" THEN k.state = "resolved" ELSE FALSE

AdvIdle ==
    /\ advPc = "idle"
    /\ advLimit = 5
    /\ enhancedQuery = "none"
    /\ queryEmbedding = CallIdle
    /\ vectorCall = CallIdle
    /\ keywordCall = CallIdle
    /\ advFused = None
    /\ advResults = None

\* The call, up to await enhanceQuery(query)
AdvCall ==
    /\ advPc = "idle"
    /\ advLimit' \in AdvLimits
    /\ advPc' = "enhancing"
    /\ UNCHANGED <<enhancedQuery, queryEmbedding, vectorCall, keywordCall, advFused, advResults>>
    /\ UNCHANGED <<rankVars, divVars, refVars, synVars, fuseVars, chunkVars, sentVars, enhVars, ingVars>>

\* enhanceQuery returns the completion, or the user's query from its catch
\* block; generateEmbedding is called
AdvEnhanced ==
    /\ advPc = "enhancing"
    /\ enhancedQuery' \in {"enhanced", "original"}
    /\ queryEmbedding' = CallPending
    /\ advPc' = "embedding"
    /\ UNCHANGED <<advLimit, vectorCall, keywordCall, advFused, advResults>>
    /\ UNCHANGED <<rankVars, divVars, refVars, synVars, fuseVars, chunkVars, sentVars, enhVars, ingVars>>

\* The embedding arrives: both store queries are issued
AdvEmbedded ==
    /\ advPc = "embedding"
    /\ queryEmbedding' = CallResolved(Some("embedding"))
    /\ vectorCall' = CallPending
    /\ keywordCall' = CallPending
    /\ advPc' = "searching"
    /\ UNCHANGED <<advLimit, enhancedQuery, advFused, advResults>>
    /\ UNCHANGED <<rankVars, divVars, refVars, synVars, fuseVars, chunkVars, sentVars, enhVars, ingVars>>

\* generateEmbedding throws: the catch block throws
AdvEmbedFailed ==
    /\ advPc = "embedding"
    /\ queryEmbedding' = CallRejected
    /\ advPc' = "failed"
    /\ UNCHANGED <<advLimit, enhancedQuery, vectorCall, keywordCall, advFused, advResults>>
    /\ UNCHANGED <<rankVars, divVars, refVars, synVars, fuseVars, chunkVars, sentVars, enhVars, ingVars>>

\* The vector query settles, whether or not the call still waits for it
AdvVectorSettles ==
    /\ vectorCall = CallPending
    /\ vectorCall' \in {CallRejected} \cup {CallResolved(d) : d \in StoreVectorData}
    /\ UNCHANGED <<advPc, advLimit, enhancedQuery, queryEmbedding, keywordCall, advFused,
                   advResults>>
    /\ UNCHANGED <<rankVars, divVars, refVars, synVars, fuseVars, chunkVars, sentVars, enhVars, ingVars>>

\* The BM25 query settles
AdvKeywordSettles ==
    /\ keywordCall = CallPending
    /\ keywordCall' \in {CallRejected} \cup {CallResolved(d) : d \in StoreKeywordData}
    /\ UNCHANGED <<advPc, advLimit, enhancedQuery, queryEmbedding, vectorCall, advFused,
                   advResults>>
    /\ UNCHANGED <<rankVars, divVars, refVars, synVars, fuseVars, chunkVars, sentVars, enhVars, ingVars>>

\* await Promise.all rejects: the catch block throws
AdvFail ==
    /\ advPc = "searching"
    /\ PromiseAllRejected(vectorCall, keywordCall)
    /\ advPc' = "failed"
    /\ UNCHANGED <<advLimit, enhancedQuery, queryEmbedding, vectorCall, keywordCall, advFused,
                   advResults>>
    /\ UNCHANGED <<rankVars, divVars, refVars, synVars, fuseVars, chunkVars, sentVars, enhVars, ingVars>>

\* await Promise.all resolves: the lists are fused and returned
AdvFuse ==
    /\ advPc = "searching"
    /\ PromiseAllResolved(vectorCall, keywordCall)
    /\ \E v \in {ListOrEmpty(vectorCall)}, k \in {ListOrEmpty(keywordCall)} :
          /\ advFused' = Some(<<v, k>>)
          /\ \E fused \in fuseSearchResults(v, k, Ratio(7, 10), advLimit) :
                advResults' = Some(fused)
    /\ advPc' = "returned"
    /\ UNCHANGED <<advLimit, enhancedQuery, queryEmbedding, vectorCall, keywordCall>>
    /\ UNCHANGED <<rankVars, divVars, refVars, synVars, fuseVars, chunkVars, sentVars, enhVars, ingVars>>

AdvNext ==
    \/ AdvCall
    \/ AdvEnhanced
    \/ AdvEmbedded
    \/ AdvEmbedFailed
    \/ AdvVectorSettles
    \/ AdvKeywordSettles
    \/ AdvFail
    \/ AdvFuse

----------------------------------------------------------------------------
\* enhancedSearchPDFContent.  The searches of the query variations, the
\* embedding of the query and the two text-generation calls are awaited one
\* after the other; each action is the code from one await to the next.
\* enhRefineOutcome, enhSynthOutcome and enhFailure record what the
\* collaborators did; the code keeps no such record.

\* The query of the call
EnhQuery == <<"a">>

\* Results the store can return: distinct chunks, two of them with the same
\* content
EnhCandidates ==
    { [id |-> 1, content |-> <<"a", " ", "b", " ", "c", " ", "x">>, distance |-> Some(200),
       importance |-> None, wordCount |-> Some(100), filename |-> Some(<<"f">>),
       relevanceScore |-> None],
      [id |-> 2, content |-> <<"a", " ", "b", " ", "c", " ", "x", " ", "1">>,
       distance |-> Some(1000), importance |-> Some(500), wordCount |-> Some(100),
       filename |-> Some(<<"g">>), relevanceScore |-> None],
      [id |-> 3, content |-> <<"b">>, distance |-> Some(1500), importance |-> None,
       wordCount |-> Some(100), filename |-> Some(<<"f">>), relevanceScore |-> None],
      [id |-> 4, content |-> <<"a", " ", "b", " ", "c", " ", "x">>, distance |-> None,
       importance |-> None, wordCount |-> None, filename |-> None,
       relevanceScore |-> None],
      [id |-> 5, content |-> <<"x", " ", "c", " ", "b", " ", "a">>,
       distance |-> Some(0), importance |-> None, wordCount |-> None,
       filename |-> Some(<<"g">>), relevanceScore |-> None] }

EnhCandidate(id) == CHOOSE c \in EnhCandidates : c.id = id

\* searchResults.results of one search
EnhStoreLists ==
    { <<>>,
      <<EnhCandidate(3)>>,
      <<EnhCandidate(3), EnhCandidate(1)>>,
      <<EnhCandidate(2), EnhCandidate(5), EnhCandidate(4)>> }

\* What the completion of generateQueryVariations can do
EnhRefineOutcomes ==
    { Rejected, Resolved(None), Resolved(Some(<<"b">>)),
      Resolved(Some(<<"b", "\n", "c", "\n", "x">>)) }

EnhOptions ==
    [limit : {1, 2}, maxResults : {2, 20}, enableRanking : BOOLEAN,
     enableDiversification : BOOLEAN, enableSynthesis : BOOLEAN,
     enableQueryRefinement : BOOLEAN]

SearchCount_All(variations) == Len(variations)

\* queryVariations.slice(0, 3).length
SearchCount(variations) == MinOf(3, Len(variations))

\* Math.ceil(maxResults / queryVariations.length)
PerSearchLimit(maxResults, variations) ==
    (maxResults + Len(variations) - 1) \div Len(variations)

\* Length of result.content.substring(0, 100)
HashPrefix == 100

\* The loop over allResults: a result is kept when no earlier result has the
\* same first 100 characters of content
RECURSIVE RemoveDuplicates(_, _, _)
RemoveDuplicates(results, seenContent, unique) ==
    IF Len(results) = 0 THEN unique
    ELSE LET contentHash == SliceTo(results[1].content, HashPrefix)
         IN  IF contentHash \in seenContent
             THEN RemoveDuplicates(Tail(results), seenContent, unique)
             ELSE RemoveDuplicates(Tail(results), seenContent \cup {contentHash},
                                   Append(unique, results[1]))

\* result.relevanceScore || 0
ScoreOrZero(result) ==
    IF Truthy(result.relevanceScore) THEN result.relevanceScore[1] ELSE 0

RanksBefore_Ascending(a, b) == ScoreOrZero(a) < ScoreOrZero(b)

\* The comparator (a, b) => (b.relevanceScore || 0) - (a.relevanceScore || 0)
\* puts a before b when it is negative
RanksBefore(a, b) == ScoreOrZero(a) > ScoreOrZero(b)

\* One insertion of the stable sort
InsertRanked(sorted, result) ==
    LET after == {k \in 1..Len(sorted) : RanksBefore(result, sorted[k])}
        n == Len(sorted) - Cardinality(after)
    IN  SubSeq(sorted, 1, n) \o <<result>> \o SubSeq(sorted, n + 1, Len(sorted))

RECURSIVE SortByRelevance(_, _)
SortByRelevance(sorted, results) ==
    IF Len(results) = 0 THEN sorted
    ELSE SortByRelevance(InsertRanked(sorted, results[1]), Tail(results))

\* The forEach that scores every result, and the sort
RankResults(results, query) ==
    SortByRelevance(<<>>,
        [k \in 1..Len(results) |->
            [results[k] EXCEPT
                !.relevanceScore = Some(calculateRelevanceScore(results[k], query))]])

\* Lines 1004-1010: diversification of the first maxResults results when
\* enabled, then the cut to limit
SelectResults(results, opts) ==
    LET diverse == IF opts.enableDiversification
                   THEN diversifyResults(SliceTo(results, opts.maxResults), Quot(4, 5))
                   ELSE results
    IN  SliceTo(diverse, opts.limit)

EnhIdle ==
    /\ enhPc = "idle"
    /\ options = [limit |-> 10, maxResults |-> 20, enableRanking |-> TRUE,
                  enableDiversification |-> TRUE, enableSynthesis |-> TRUE,
                  enableQueryRefinement |-> TRUE]
    /\ enhQueryVariations = <<>>
    /\ searchIndex = 0
    /\ allResults = <<>>
    /\ uniqueResults = <<>>
    /\ finalResults = <<>>
    /\ enhSynthesis = None
    /\ enhRefineOutcome = None
    /\ enhSynthOutcome = None
    /\ enhFailure = "none"

\* The call, up to the first await
EnhCall ==
    /\ enhPc = "idle"
    /\ \E opts \in EnhOptions :
          /\ options' = opts
          /\ enhPc' = IF opts.enableQueryRefinement THEN "refining" ELSE "searching"
    /\ enhQueryVariations' = <<EnhQuery>>
    /\ allResults' = <<>>
    /\ UNCHANGED <<searchIndex, uniqueResults, finalResults, enhSynthesis, enhRefineOutcome,
                   enhSynthOutcome, enhFailure>>
    /\ UNCHANGED <<rankVars, divVars, refVars, synVars, fuseVars, chunkVars, sentVars, advVars, ingVars>>

\* await QueryRefiner.generateQueryVariations(query) returns
EnhRefined ==
    /\ enhPc = "refining"
    /\ \E outcome \in EnhRefineOutcomes :
          /\ enhRefineOutcome' = Some(outcome)
          /\ enhQueryVariations' = generateQueryVariations(EnhQuery, outcome)
    /\ enhPc' = "searching"
    /\ UNCHANGED <<options, searchIndex, allResults, uniqueResults, finalResults, enhSynthesis,
                   enhSynthOutcome, enhFailure>>
    /\ UNCHANGED <<rankVars, divVars, refVars, synVars, fuseVars, chunkVars, sentVars, advVars, ingVars>>

\* One search of the for loop returns its results
EnhSearched ==
    /\ enhPc = "searching"
    /\ searchIndex < SearchCount(enhQueryVariations)
    /\ \E results \in EnhStoreLists :
          /\ Len(results) <= PerSearchLimit(options.maxResults, enhQueryVariations)
          /\ allResults' = allResults \o results
    /\ searchIndex' = searchIndex + 1
    /\ UNCHANGED <<enhPc, options, enhQueryVariations, uniqueResults, finalResults,
                   enhSynthesis, enhRefineOutcome, enhSynthOutcome, enhFailure>>
    /\ UNCHANGED <<rankVars, divVars, refVars, synVars, fuseVars, chunkVars, sentVars, advVars, ingVars>>

\* One search throws: the catch block rethrows
EnhSearchFailed ==
    /\ enhPc = "searching"
    /\ searchIndex < SearchCount(enhQueryVariations)
    /\ enhFailure' = "store"
    /\ enhPc' = "failed"
    /\ UNCHANGED <<options, enhQueryVariations, searchIndex, allResults, uniqueResults,
                   finalResults, enhSynthesis, enhRefineOutcome, enhSynthOutcome>>
    /\ UNCHANGED <<rankVars, divVars, refVars, synVars, fuseVars, chunkVars, sentVars, advVars, ingVars>>

\* The for loop is over: the duplicates are removed
EnhPooled ==
    /\ enhPc = "searching"
    /\ searchIndex >= SearchCount(enhQueryVariations)
    /\ uniqueResults' = RemoveDuplicates(allResults, {}, <<>>)
    /\ enhPc' = IF options.enableRanking
                THEN (IF Len(uniqueResults') > 0 THEN "ranking" ELSE "selecting")
                ELSE "selecting"
    /\ UNCHANGED <<options, enhQueryVariations, searchIndex, allResults, finalResults,
                   enhSynthesis, enhRefineOutcome, enhSynthOutcome, enhFailure>>
    /\ UNCHANGED <<rankVars, divVars, refVars, synVars, fuseVars, chunkVars, sentVars, advVars, ingVars>>

\* await generateEmbedding(query) returns: the results are scored and sorted
EnhRanked ==
    /\ enhPc = "ranking"
    /\ uniqueResults' = RankResults(uniqueResults, EnhQuery)
    /\ enhPc' = "selecting"
    /\ UNCHANGED <<options, enhQueryVariations, searchIndex, allResults, finalResults,
                   enhSynthesis, enhRefineOutcome, enhSynthOutcome, enhFailure>>
    /\ UNCHANGED <<rankVars, divVars, refVars, synVars, fuseVars, chunkVars, sentVars, advVars, ingVars>>

\* generateEmbedding throws: the catch block rethrows
EnhEmbedFailed ==
    /\ enhPc = "ranking"
    /\ enhFailure' = "embedding"
    /\ enhPc' = "failed"
    /\ UNCHANGED <<options, enhQueryVariations, searchIndex, allResults, uniqueResults,
                   finalResults, enhSynthesis, enhRefineOutcome, enhSynthOutcome>>
    /\ UNCHANGED <<rankVars, divVars, refVars, synVars, fuseVars, chunkVars, sentVars, advVars, ingVars>>

\* Diversification and the cut to limit; the call returns here unless the
\* synthesis is awaited
EnhSelected ==
    /\ enhPc = "selecting"
    /\ finalResults' = SelectResults(uniqueResults, options)
    /\ enhSynthesis' = None
    /\ enhPc' = IF options.enableSynthesis
                THEN (IF Len(finalResults') > 1 THEN "synthesizing" ELSE "returned")
                ELSE "returned"
    /\ UNCHANGED <<options, enhQueryVariations, searchIndex, allResults, uniqueResults,
                   enhRefineOutcome, enhSynthOutcome, enhFailure>>
    /\ UNCHANGED <<rankVars, divVars, refVars, synVars, fuseVars, chunkVars, sentVars, advVars, ingVars>>

\* await DocumentSynthesizer.synthesizeResults(finalResults, query) returns,
\* and the call returns
EnhSynthesized ==
    /\ enhPc = "synthesizing"
    /\ \E outcome \in {Rejected} \cup {Resolved(c) : c \in SynAnswers} :
          /\ enhSynthOutcome' = Some(outcome)
          /\ enhSynthesis' = SynthesisReturn(outcome)
    /\ enhPc' = "returned"
    /\ UNCHANGED <<options, enhQueryVariations, searchIndex, allResults, uniqueResults,
                   finalResults, enhRefineOutcome, enhFailure>>
    /\ UNCHANGED <<rankVars, divVars, refVars, synVars, fuseVars, chunkVars, sentVars, advVars, ingVars>>

EnhNext ==
    \/ EnhCall
    \/ EnhRefined
    \/ EnhSearched
    \/ EnhSearchFailed
    \/ EnhPooled
    \/ EnhRanked
    \/ EnhEmbedFailed
    \/ EnhSelected
    \/ EnhSynthesized

----------------------------------------------------------------------------
\* storePDFInWeaviateParallel and enhancedStorePDFInWeaviate: the two differ
\* in the chunker and the metadata, not in the batching.  batches[b] is the
\* number of chunks of batch b, and batchRun[b] the run of processBatch on
\* it: "waiting" (not called), "embedding" with the number of embeddings
\* that have resolved, "storing" (upsert awaited), "stored" (resolved) or
\* "failed" (rejected) with its error message.  A message is the sequence of
\* its parts, outermost prefix first.

\* const concurrencyLimit = 3
concurrencyLimit == 3

\* const batchSize = 5
batchSize == 5

\* Most chunks of one document
MaxIngestChunks == 16

IngestChunkCounts == {0, 3, 7, MaxIngestChunks}

\* Messages of the errors the collaborators raise
EmbedErrors == {"rate limit"}

StoreErrors == {"store unavailable"}

\* The for loop that slices chunks into batches
MakeBatches(n) ==
    [b \in 1..((n + batchSize - 1) \div batchSize) |->
        MinOf(batchSize, n - (b - 1) * batchSize)]

WaveBatches_AllRemaining(i, count) == (i + 1)..count

\* batches.slice(i, i + concurrencyLimit), as batch numbers
WaveBatches(i, count) == (i + 1)..MinOf(i + concurrencyLimit, count)

Waiting ==
    [state |-> "waiting", embedded |-> 0, error |-> <<>>, batchIndex |-> None, objects |-> <<>>]

\* processBatch is called: the embeddings of the batch are requested
Started ==
    [state |-> "embedding", embedded |-> 0, error |-> <<>>, batchIndex |-> None,
     objects |-> <<>>]

BatchIndexArgument_InWave(i, idx) == idx

\* The batchIndex of processBatch(batch, i + idx)
BatchIndexArgument(i, idx) == i + idx

\* batchPromises of the wave that starts at i: batch b is currentBatches[idx]
\* with idx = b - 1 - i
StartWave(runs, i) ==
    [b \in 1..Len(runs) |->
        IF b \in WaveBatches(i, Len(runs))
        THEN [Started EXCEPT !.batchIndex = Some(BatchIndexArgument(i, b - 1 - i))]
        ELSE runs[b]]

\* The objects of batch b, which holds chunks.slice((b - 1) * batchSize, ...):
\* chunk is the position of the chunk in chunks, chunkIndex the property
\* batchIndex * batchSize + j sent to the store
BatchObjects(b, size, batchIndex) ==
    [k \in 1..size |-> [chunk |-> (b - 1) * batchSize + (k - 1),
                        chunkIndex |-> batchIndex * batchSize + (k - 1)]]

WaveResolved_Settled(runs, i) ==
    \A b \in WaveBatches(i, Len(runs)) : runs[b].state \in {"stored", "failed"}

\* await Promise.all(batchPromises) resolves
WaveResolved(runs, i) ==
    \A b \in WaveBatches(i, Len(runs)) : runs[b].state = "stored"

\* The object returned after the last wave
IngestSuccess(count) == Some([success |-> TRUE, chunksStored |-> count])

\* throw new Error(`Failed to store PDF: ${error.message}`)
StoreFailure(message) == <<"Failed to store PDF">> \o message

IngIdle ==
    /\ ingPc = "idle"
    /\ chunkCount = 0
    /\ batches = <<>>
    /\ waveStart = 0
    /\ batchRun = <<>>
    /\ waveRejection = None
    /\ storedChunks = 0
    /\ ingResult = None
    /\ ingError = <<>>

\* The call, up to await extractPDFText(filePath)
IngestCall ==
    /\ ingPc = "idle"
    /\ ingPc' = "extracting"
    /\ UNCHANGED <<chunkCount, batches, waveStart, batchRun, waveRejection, storedChunks,
                   ingResult, ingError>>
    /\ UNCHANGED <<rankVars, divVars, refVars, synVars, fuseVars, chunkVars, sentVars, advVars,
                   enhVars>>

\* The text is extracted and chunked, the batches are made and the first
\* wave is started; without chunks the call returns at once
IngestExtracted ==
    /\ ingPc = "extracting"
    /\ \E n \in IngestChunkCounts :
          /\ chunkCount' = n
          /\ batches' = MakeBatches(n)
          /\ batchRun' = StartWave([b \in 1..Len(MakeBatches(n)) |-> Waiting], 0)
          /\ ingPc' = IF n = 0 THEN "returned" ELSE "wave"
          /\ ingResult' = IF n = 0 THEN IngestSuccess(n) ELSE None
    /\ waveStart' = 0
    /\ storedChunks' = 0
    /\ UNCHANGED <<waveRejection, ingError>>
    /\ UNCHANGED <<rankVars, divVars, refVars, synVars, fuseVars, chunkVars, sentVars, advVars,
                   enhVars>>

\* extractPDFText throws
IngestExtractFailed ==
    /\ ingPc = "extracting"
    /\ ingError' = StoreFailure(<<"PDF text extraction failed", "unreadable">>)
    /\ ingPc' = "failed"
    /\ UNCHANGED <<chunkCount, batches, waveStart, batchRun, waveRejection, storedChunks,
                   ingResult>>
    /\ UNCHANGED <<rankVars, divVars, refVars, synVars, fuseVars, chunkVars, sentVars, advVars,
                   enhVars>>

\* One embedding of batch b resolves; with the last one the objects are
\* built and the upsert is sent
EmbeddingResolves ==
    /\ \E b \in 1..Len(batchRun) :
          /\ batchRun[b].state = "embedding"
          /\ batchRun' = [batchRun EXCEPT ![b] =
                 IF batchRun[b].embedded + 1 = batches[b]
                 THEN [batchRun[b] EXCEPT
                         !.state = "storing",
                         !.embedded = batches[b],
                         !.objects = BatchObjects(b, batches[b], batchRun[b].batchIndex[1])]
                 ELSE [batchRun[b] EXCEPT !.embedded = @ + 1]]
    /\ UNCHANGED <<ingPc, chunkCount, batches, waveStart, waveRejection, storedChunks,
                   ingResult, ingError>>
    /\ UNCHANGED <<rankVars, divVars, refVars, synVars, fuseVars, chunkVars, sentVars, advVars,
                   enhVars>>

\* One embedding of batch b rejects: generateEmbedding throws, processBatch
\* rejects, and so does the Promise.all of the wave unless it already has
EmbeddingRejects ==
    /\ \E b \in 1..Len(batchRun), m \in EmbedErrors :
          /\ batchRun[b].state = "embedding"
          /\ batchRun' = [batchRun EXCEPT ![b] =
                 [@ EXCEPT !.state = "failed",
                           !.error = <<"Embedding generation failed", m>>]]
          /\ waveRejection' = IF waveRejection = None
                              THEN Some(<<"Embedding generation failed", m>>)
                              ELSE waveRejection
    /\ UNCHANGED <<ingPc, chunkCount, batches, waveStart, storedChunks, ingResult, ingError>>
    /\ UNCHANGED <<rankVars, divVars, refVars, synVars, fuseVars, chunkVars, sentVars, advVars,
                   enhVars>>

\* The upsert of batch b resolves: storedChunks += objects.length
UpsertResolves ==
    /\ \E b \in 1..Len(batchRun) :
          /\ batchRun[b].state = "storing"
          /\ batchRun' = [batchRun EXCEPT ![b].state = "stored"]
          /\ storedChunks' = storedChunks + Len(batchRun[b].objects)
    /\ UNCHANGED <<ingPc, chunkCount, batches, waveStart, waveRejection, ingResult, ingError>>
    /\ UNCHANGED <<rankVars, divVars, refVars, synVars, fuseVars, chunkVars, sentVars, advVars,
                   enhVars>>

\* The upsert of batch b rejects
UpsertRejects ==
    /\ \E b \in 1..Len(batchRun), m \in StoreErrors :
          /\ batchRun[b].state = "storing"
          /\ batchRun' = [batchRun EXCEPT ![b] = [@ EXCEPT !.state = "failed", !.error = <<m>>]]
          /\ waveRejection' = IF waveRejection = None THEN Some(<<m>>) ELSE waveRejection
    /\ UNCHANGED <<ingPc, chunkCount, batches, waveStart, storedChunks, ingResult, ingError>>
    /\ UNCHANGED <<rankVars, divVars, refVars, synVars, fuseVars, chunkVars, sentVars, advVars,
                   enhVars>>

\* await Promise.all(batchPromises) rejects: the catch block throws
WaveFails ==
    /\ ingPc = "wave"
    /\ waveRejection # None
    /\ ingError' = StoreFailure(waveRejection[1])
    /\ ingPc' = "failed"
    /\ UNCHANGED <<chunkCount, batches, waveStart, batchRun, waveRejection, storedChunks,
                   ingResult>>
    /\ UNCHANGED <<rankVars, divVars, refVars, synVars, fuseVars, chunkVars, sentVars, advVars,
                   enhVars>>

\* await Promise.all(batchPromises) resolves: the delay before the next
\* wave is awaited, or the call returns after the last wave
WaveDone ==
    /\ ingPc = "wave"
    /\ WaveResolved(batchRun, waveStart)
    /\ IF waveStart + concurrencyLimit < Len(batches)
       THEN ingPc' = "delay" /\ ingResult' = ingResult
       ELSE ingPc' = "returned" /\ ingResult' = IngestSuccess(chunkCount)
    /\ UNCHANGED <<chunkCount, batches, waveStart, batchRun, waveRejection, storedChunks,
                   ingError>>
    /\ UNCHANGED <<rankVars, divVars, refVars, synVars, fuseVars, chunkVars, sentVars, advVars,
                   enhVars>>

\* The delay is over: i += concurrencyLimit and the next wave is started
NextWave ==
    /\ ingPc = "delay"
    /\ waveStart' = waveStart + concurrencyLimit
    /\ batchRun' = StartWave(batchRun, waveStart + concurrencyLimit)
    /\ ingPc' = "wave"
    /\ UNCHANGED <<chunkCount, batches, waveRejection, storedChunks, ingResult, ingError>>
    /\ UNCHANGED <<rankVars, divVars, refVars, synVars, fuseVars, chunkVars, sentVars, advVars,
                   enhVars>>

IngNext ==
    \/ IngestCall
    \/ IngestExtracted
    \/ IngestExtractFailed
    \/ EmbeddingResolves
    \/ EmbeddingRejects
    \/ UpsertResolves
    \/ UpsertRejects
    \/ WaveFails
    \/ WaveDone
    \/ NextWave

----------------------------------------------------------------------------
\* Specifications, one per component

Idle == RankIdle /\ DivIdle /\ RefIdle /\ SynIdle /\ FuseIdle /\ ChunkIdle /\ SentIdle
           /\ AdvIdle /\ EnhIdle /\ IngIdle

SpecRank == Idle /\ [][RankNext]_vars

SpecDiv == Idle /\ [][DivNext]_vars

SpecRefine == Idle /\ [][RefNext]_vars

SpecSynth == Idle /\ [][SynNext]_vars

SpecFuse == Idle /\ [][FuseNext]_vars

SpecChunk == Idle /\ [][ChunkNext]_vars

SpecChunkUnchecked == Idle /\ [][UncheckedNext]_vars

\* chunkBySentences is synchronous code: an enabled statement is executed
SpecSentences ==
    Idle /\ [][SentNext]_vars /\ WF_vars(SentencesIterate) /\ WF_vars(SentencesFinish)

\* The step of AdvFuse by its control flow alone: AdvFuse is the only step
\* from "searching" to "returned" and is enabled whenever Promise.all has
\* resolved, so weak fairness of this step is weak fairness of AdvFuse
AdvFuseReturns ==
    /\ advPc = "searching"
    /\ PromiseAllResolved(vectorCall, keywordCall)
    /\ advPc' = "returned"

\* The code after an await runs once the awaited promise has settled; nothing
\* makes a collaborator answer
SpecAdvanced ==
    Idle /\ [][AdvNext]_vars /\ WF_vars(AdvFail) /\ WF_advPc(AdvFuseReturns)

SpecEnhanced == Idle /\ [][EnhNext]_vars

\* A call of searchPDFContentAdvanced and, once it has completed, a call of
\* enhancedSearchPDFContent
SearchesNext ==
    \/ enhPc = "idle" /\ AdvNext
    \/ advPc \in {"returned", "failed"} /\ EnhNext

SpecSearches == Idle /\ [][SearchesNext]_vars

\* The code after an await runs once the awaited promise has settled, and
\* the timer of the delay fires; nothing makes a collaborator answer
SpecIngest ==
    Idle /\ [][IngNext]_vars /\ WF_vars(WaveFails) /\ WF_vars(WaveDone) /\ WF_vars(NextWave)

----------------------------------------------------------------------------
\* C1: every relevance score returned by calculateRelevanceScore lies in
\* [0, 1], whatever the store distance, the importance and the word count.
C1_ScoreInUnitInterval ==
    rankPc = "done" => (relevanceScore[1] >= 0 /\ relevanceScore[1] <= 1000)

\* C2: the output of diversifyResults contains the first input result, and
\* any two distinct results of the output have a defined token-set Jaccard
\* similarity strictly below the threshold.
C2_PairwiseBelowThreshold ==
    divPc = "done" =>
        /\ (Len(divResults) > 0 =>
                \E k \in 1..Len(diversified) : diversified[k] = divResults[1])
        /\ \A i, j \in 1..Len(diversified) :
                i < j => NumLess(calculateTextSimilarity(diversified[i].content,
                                                        diversified[j].content),
                                 maxSimilarity)

\* C3: whatever the collaborator does, the list returned by
\* generateQueryVariations is non-empty and starts with the original query.
C3_FirstIsOriginal ==
    refPc = "done" =>
        /\ Len(queryVariations) >= 1
        /\ queryVariations[1] = originalQuery

\* C3 witness: the call has returned after the collaborator failed
C3_Witness_ReturnedAfterFailure ==
    refPc = "done" /\ refOutcome.rejected /\ queryVariations = <<originalQuery>>

\* C4 (as claimed): the returned list has at most 5 elements, the original
\* query and at most 4 variants.
C4_AtMostFiveElements ==
    refPc = "done" => Len(queryVariations) <= 5

\* C4 (amended): the returned list has at most 6 elements, the original
\* query and at most 5 variants.
C4_AtMostSixElements ==
    refPc = "done" => Len(queryVariations) <= 6

\* C4 witness: a response with more than 5 non-blank lines was cut to 5 variants
C4_Witness_SixElements ==
    /\ refPc = "done"
    /\ ~refOutcome.rejected
    /\ refOutcome.content # None
    /\ Len(FilterNonBlank(SplitLines(refOutcome.content[1]))) > MaxVariations
    /\ Len(queryVariations) = 6

\* C5: no two elements of the returned list are equal up to letter case.
C5_NoCaseInsensitiveDuplicates ==
    refPc = "done" =>
        \A i, j \in 1..Len(queryVariations) :
            i < j => ToLower(queryVariations[i]) # ToLower(queryVariations[j])

\* C6: synthesizeResults returns absent for an empty or missing result list
\* and after a collaborator failure, and never returns an empty string.
C6_AbsentNeverEmptyString ==
    synPc = "done" =>
        /\ (NothingToSynthesize(synResults) => synthesis = None)
        /\ (~NothingToSynthesize(synResults) /\ synOutcome.rejected => synthesis = None)
        /\ synthesis # Some(<<>>)

\* The call of the spec's worked example: vector [a: 0.9, b: 0.5], lexical
\* [b: 10, c: 5], vectorWeight 0.7
FuseExampleCall ==
    /\ fusePc = "done"
    /\ vectorResults = <<[key |-> "a", raw |-> Some(9)], [key |-> "b", raw |-> Some(5)]>>
    /\ keywordResults = <<[key |-> "b", raw |-> Some(10)], [key |-> "c", raw |-> Some(5)]>>
    /\ vectorWeight = Ratio(7, 10)

\* Position of a chunk in the fused output, 0 when it is not part of it
FusedPosition(key) == MapIndex(fusedResults, key)

\* C7 (as claimed): in the worked example with limit 2, b is ranked above a,
\* and c is part of the output only when the limit is at least 3.
C7_ExampleRanksBAboveA ==
    FuseExampleCall =>
        /\ (fuseLimit = 2 =>
                /\ FusedPosition("a") # 0
                /\ FusedPosition("b") # 0
                /\ FusedPosition("b") < FusedPosition("a"))
        /\ (FusedPosition("c") # 0 => fuseLimit >= 3)

\* C7 (amended): in the worked example with limit 2, a is ranked above b
\* (a scores 0.7, b scores 0.5/0.9 * 0.7 + 0.3), and c is part of the output
\* only when the limit is at least 3.
C7_ExampleRanksAAboveB ==
    FuseExampleCall =>
        /\ (fuseLimit = 2 =>
                /\ FusedPosition("a") # 0
                /\ FusedPosition("b") # 0
                /\ FusedPosition("a") < FusedPosition("b"))
        /\ (FusedPosition("c") # 0 => fuseLimit >= 3)

\* C7 witness: the worked example has been fused with limit 2
C7_Witness_ExampleFused ==
    FuseExampleCall /\ fuseLimit = 2 /\ Len(fusedResults) = 2

\* The chunk and raw score of each entry of a list, in order
Chunks(list) == [k \in 1..Len(list) |-> [key |-> list[k].key, raw |-> list[k].raw]]

\* C8: fusing a ranked list with distinct chunk keys with itself at
\* vectorWeight 1 returns its first min(limit, |L|) entries in their order.
C8_SameListKeepsOrder ==
    fusePc = "doneSame" =>
        Chunks(fusedResults) = Chunks(SliceTo(vectorResults, fuseLimit))

\* C8 witness: a list of tied all-zero scores was fused with itself
C8_Witness_TiedZeroList ==
    /\ fusePc = "doneSame"
    /\ Len(vectorResults) >= 2
    /\ \A k \in 1..Len(vectorResults) : vectorResults[k].raw = Some(0)
    /\ Len(fusedResults) >= 2

\* The source spans [from, to) a chunk was taken from
SourceSpans(chunk) ==
    IF chunker = "sentences"
    THEN {chunk.spans[k] : k \in 1..Len(chunk.spans)}
    ELSE {<<chunk.start, chunk.end>>}

\* The first source offset of a chunk
SourceStart(chunk) == SetMin({sp[1] : sp \in SourceSpans(chunk)})

\* C9: for every policy (here the fixed-window chunkers and the sentence
\* policy) the emitted chunks are in source order and no non-whitespace
\* character of the text is missing from every chunk.
C9_ChunksCoverText ==
    chunkPc = "done" =>
        /\ \A i \in 1..(Len(chunks) - 1) :
               SourceStart(chunks[i]) <= SourceStart(chunks[i + 1])
        /\ LET t == Chars(text)
           IN  \A p \in 0..(Len(t) - 1) :
                   ~IsSpace(CharAt(t, p)) =>
                       \E i \in 1..Len(chunks) :
                           \E sp \in SourceSpans(chunks[i]) : sp[1] <= p /\ p < sp[2]

\* 0 <= overlap < maxChunkSize, for a fixed-window chunker
ValidChunkConfig ==
    chunker \in {"basic", "enhanced"} /\ 0 <= overlap /\ overlap < maxChunkSize

\* C10 (as claimed): with 0 <= overlap < maxChunkSize, consecutive emitted
\* chunks neither leave a gap nor share more than overlap characters.
C10_OverlapWithinBounds ==
    ValidChunkConfig =>
        \A i \in 1..(Len(chunks) - 1) :
            /\ chunks[i].end - chunks[i + 1].start >= 0
            /\ chunks[i].end - chunks[i + 1].start <= overlap

\* C10 (amended): with 0 <= overlap < maxChunkSize, consecutive emitted
\* chunks share at most overlap characters, and they leave no gap when they
\* come from consecutive windows (no dropped window lies between them).
C10_OverlapBoundedGapOnlyAfterDrop ==
    ValidChunkConfig =>
        \A i \in 1..(Len(chunks) - 1) :
            /\ chunks[i].end - chunks[i + 1].start <= overlap
            /\ (chunks[i + 1].iteration = chunks[i].iteration + 1
                    => chunks[i].end - chunks[i + 1].start >= 0)

\* C10 witness: two consecutive emitted chunks with a dropped window, and a
\* gap, between them
C10_Witness_GapAfterDroppedWindow ==
    /\ chunkPc = "done"
    /\ ValidChunkConfig
    /\ \E i \in 1..(Len(chunks) - 1) :
          /\ chunks[i + 1].iteration > chunks[i].iteration + 1
          /\ chunks[i].end < chunks[i + 1].start

----------------------------------------------------------------------------
\* C11: chunkBySentences terminates for every text and configuration, also
\* when maxChunkSize is smaller than two sentences and one sentence overlaps;
\* the start offset strictly increases from each emitted chunk to the next,
\* and the last sentence of the split is in the last emitted chunk.
SentencesReturned == chunkPc = "done" /\ chunker = "sentences"

StartsIncreaseLastSentenceKept ==
    SentencesReturned =>
        /\ \A i \in 1..(Len(chunks) - 1) : chunks[i].start < chunks[i + 1].start
        /\ LET sents == Sentences(Chars(text))
               last == sents[Len(sents)]
           IN  /\ Len(chunks) > 0
               /\ Includes(Chars(chunks[Len(chunks)].text), last.text)
               /\ LET spans == chunks[Len(chunks)].spans
                  IN  spans[Len(spans)] = <<last.from, last.to>>

----------------------------------------------------------------------------
\* C12: when the vector query or the BM25 query of searchPDFContentAdvanced
\* fails, the call fails: it never returns, fusion never runs with an empty
\* list in place of the failed query, and results (an empty list included)
\* are returned only after both queries have succeeded.
StoreQueryFailed == PromiseAllRejected(vectorCall, keywordCall)

NoResultsAfterFailedQuery ==
    /\ StoreQueryFailed => advPc # "returned" /\ advFused = None /\ advResults = None
    /\ advPc = "returned" =>
          /\ vectorCall.state = "resolved"
          /\ keywordCall.state = "resolved"
          /\ advFused = Some(<<ListOrEmpty(vectorCall), ListOrEmpty(keywordCall)>>)

C12_FailedQueryFailsTheCall ==
    /\ []NoResultsAfterFailedQuery
    /\ (advPc = "searching" /\ StoreQueryFailed) ~> (advPc = "failed")

\* The vector query failed and the BM25 query found nothing: the call failed
C12_Witness_FailedBesideEmptyList ==
    /\ advPc = "failed"
    /\ vectorCall = CallRejected
    /\ keywordCall = CallResolved(Some(<<>>))

----------------------------------------------------------------------------
\* C13: a failure of the text-generation collaborator during query
\* refinement or synthesis never aborts enhancedSearchPDFContent: the call
\* fails only on a failed search or embedding, a failed refinement leaves
\* the variations [query], and after a failed synthesis the call returns its
\* selected results with the synthesis absent.
EnhSelection == SelectResults(uniqueResults, options)

C13_TextGenerationFailureNeverAborts ==
    /\ enhPc = "failed" => enhFailure \in {"store", "embedding"}
    /\ enhRefineOutcome = Some(Rejected) =>
          /\ enhQueryVariations = <<EnhQuery>>
          /\ enhPc \in {"searching", "ranking", "selecting", "synthesizing", "returned"}
                \/ enhFailure \in {"store", "embedding"}
    /\ enhSynthOutcome = Some(Rejected) =>
          /\ enhPc = "returned"
          /\ enhSynthesis = None
          /\ finalResults = EnhSelection

\* Both text-generation calls failed and two ranked results came back
C13_Witness_BothFailedStillReturned ==
    /\ enhPc = "returned"
    /\ enhRefineOutcome = Some(Rejected)
    /\ enhSynthOutcome = Some(Rejected)
    /\ options.enableRanking
    /\ Len(finalResults) = 2

----------------------------------------------------------------------------
\* C14: when an embedding or the upsert of a batch fails, the ingestion call
\* fails with an error that carries the message of the failure; it never
\* returns success with fewer than all chunks stored.
BatchFailed == \E b \in 1..Len(batchRun) : batchRun[b].state = "failed"

FailedBatchFailsIngestion ==
    /\ ingPc = "returned" =>
          /\ ingResult = IngestSuccess(chunkCount)
          /\ storedChunks = chunkCount
          /\ \A b \in 1..Len(batchRun) : batchRun[b].state = "stored"
    /\ ingResult # None => ingPc = "returned"
    /\ BatchFailed => ingPc \in {"wave", "failed"}
    /\ (ingPc = "failed" /\ Len(batchRun) > 0) =>
          \E b \in 1..Len(batchRun) :
              /\ batchRun[b].state = "failed"
              /\ ingError = StoreFailure(batchRun[b].error)
              /\ ingError[Len(ingError)] \in EmbedErrors \cup StoreErrors

C14_FailedBatchFailsIngestion ==
    /\ []FailedBatchFailsIngestion
    /\ (ingPc = "wave" /\ BatchFailed) ~> (ingPc = "failed")

\* The call failed on a rejected upsert while other chunks were stored
C14_Witness_FailedAfterPartialStore ==
    /\ ingPc = "failed"
    /\ ingError = StoreFailure(<<"store unavailable">>)
    /\ storedChunks > 0
    /\ storedChunks < chunkCount

\* C15: in every interleaving at most 3 batches, each of at most 5 chunks,
\* are in flight at once; a batch of a later wave is started only after every
\* batch of the earlier waves has been stored, so no wave follows a failed
\* one.
InFlight == {b \in 1..Len(batchRun) : batchRun[b].state \in {"embedding", "storing"}}

WaveOf(b) == (b - 1) \div concurrencyLimit

C15_BoundedWavesInOrder ==
    /\ Cardinality(InFlight) <= 3
    /\ \A b \in 1..Len(batches) : batches[b] <= 5
    /\ \A b \in 1..Len(batchRun) :
          batchRun[b].state # "waiting" =>
              \A a \in 1..Len(batchRun) :
                  WaveOf(a) < WaveOf(b) => batchRun[a].state = "stored"

\* The second wave is in flight after the three batches of the first
C15_Witness_SecondWaveInFlight ==
    /\ Len(batchRun) >= 4
    /\ batchRun[4].state = "embedding"
    /\ storedChunks = 15

\* C16: a fixed-window call whose overlap is not smaller than maxChunkSize,
\* or whose maxChunkSize is not positive, raises a configuration error at
\* once: it never emits a chunk and never returns normally
InvalidChunkConfig == overlap >= maxChunkSize \/ maxChunkSize <= 0

C16_InvalidConfigRaisesError ==
    (chunker \in {"basic", "enhanced"} /\ chunkPc # "idle" /\ InvalidChunkConfig)
        => (chunkPc # "done" /\ chunks = <<>>)

\* C19: whatever the toggles, the results enhancedSearchPDFContent returns
\* are at most limit many and are a subsequence, in its order, of
\* uniqueResults, the deduplicated pool as the call holds it (scored and
\* sorted in place when ranking is enabled); with ranking enabled their
\* relevanceScore never increases along the list
RECURSIVE IsSubsequence(_, _)
IsSubsequence(sub, seq) ==
    IF Len(sub) = 0 THEN TRUE
    ELSE IF Len(seq) = 0 THEN FALSE
    ELSE IF sub[1] = seq[1] THEN IsSubsequence(Tail(sub), Tail(seq))
    ELSE IsSubsequence(sub, Tail(seq))

EnhResultsSelected == enhPc \in {"synthesizing", "returned"}

C19_ResultsBoundedOrderedSubsequence ==
    EnhResultsSelected =>
        /\ Len(finalResults) <= options.limit
        /\ IsSubsequence(finalResults, uniqueResults)
        /\ options.enableRanking =>
              \A k \in 1..(Len(finalResults) - 1) :
                  ScoreOrZero(finalResults[k]) >= ScoreOrZero(finalResults[k + 1])

\* Ranked and diversified results returned with a gap: the second of the
\* pool was dropped as too similar to the first, and the pool is longer
\* than the limit
C19_Witness_RankedWithGap ==
    /\ enhPc = "returned"
    /\ options.enableRanking
    /\ options.enableDiversification
    /\ Len(finalResults) = 2
    /\ Len(uniqueResults) > 3
    /\ finalResults[2] = uniqueResults[3]
    /\ ScoreOrZero(finalResults[1]) > ScoreOrZero(finalResults[2])

\* C17: a segmentation call on the empty text returns no chunks, whichever
\* the policy
C17_EmptyTextGivesNoChunks ==
    (chunkPc = "done" /\ Len(Chars(text)) = 0) => chunks = <<>>

\* C18: every call of searchPDFContentAdvanced completes, by returning or by
\* failing, whatever its collaborators do
AdvCompleted == advPc \in {"returned", "failed"}

C18_EverySearchCompletes == (advPc # "idle") ~> AdvCompleted

InUnitInterval(score) == ~IsNaN(score) /\ 0 <= score.n /\ score.n <= score.d

\* Math.max of the raw scores is 0: every score of the list is 0 or missing
ZeroMaximum(results) == Len(results) > 0 /\ MaxRawScore(results) = Some(0)

\* C20: every fused entry has a vectorScore and a keywordScore in [0, 1],
\* and the members of a list whose largest raw score is zero or absent all
\* get the normalized score 0 for that list's method
C20_NormalizedScoresInUnitInterval ==
    fusePc # "idle" =>
        /\ \A k \in 1..Len(fusedResults) :
              /\ InUnitInterval(fusedResults[k].vectorScore)
              /\ InUnitInterval(fusedResults[k].keywordScore)
        /\ ZeroMaximum(vectorResults) =>
              \A k \in 1..Len(fusedResults) : fusedResults[k].vectorScore = Zero
        /\ ZeroMaximum(keywordResults) =>
              \A k \in 1..Len(fusedResults) : fusedResults[k].keywordScore = Zero

\* The normalized score of the chunk with this key in a list as the code
\* normalizes it, or 0 when the list has no such chunk
NormalizedIn(results, key, vectorList) ==
    LET at == {i \in 1..Len(results) : results[i].key = key}
    IN  IF at = {} THEN Zero
        ELSE LET i == CHOOSE j \in at : \A h \in at : h <= j
             IN  IF vectorList
                 THEN NormalizedVectorScore(results[i], MaxRawScore(results))
                 ELSE NormalizedKeywordScore(results[i], MaxRawScore(results))

InputKeys == {vectorResults[i].key : i \in 1..Len(vectorResults)}
                 \cup {keywordResults[i].key : i \in 1..Len(keywordResults)}

NumAtLeast(a, b) == ~IsNaN(a) /\ ~IsNaN(b) /\ a.n * b.d >= b.n * a.d

\* A rank, an absent rank being worse than every rank
RankOrLast(rank) == IF rank = None THEN MaxListLen + 1 ELSE rank[1]

\* Of two entries with equal scores the better vector rank goes first, then
\* the better keyword rank
TieBrokenByRanks(first, second) ==
    \/ RankOrLast(first.vectorRank) < RankOrLast(second.vectorRank)
    \/ /\ RankOrLast(first.vectorRank) = RankOrLast(second.vectorRank)
       /\ RankOrLast(first.keywordRank) <= RankOrLast(second.keywordRank)

\* C22: the list fuseSearchResults returns has at most limit entries and is
\* sorted by fused score, highest first; entries of equal score are in the
\* order of their vector ranks, then of their keyword ranks, then of
\* insertion
C22_SortedByScoreTiesByRank ==
    fusePc # "idle" =>
        /\ Len(fusedResults) <= fuseLimit
        /\ \A i, j \in 1..Len(fusedResults) :
              i < j =>
                  /\ NumAtLeast(fusedResults[i].hybridScore, fusedResults[j].hybridScore)
                  /\ fusedResults[i].hybridScore = fusedResults[j].hybridScore
                        => TieBrokenByRanks(fusedResults[i], fusedResults[j])

\* The relevance in thousandths as the claim computes it: 1 - distance for
\* every supplied distance (0.5 without one), the three boosts, the penalty,
\* and the cap at 1
ClaimedRelevance(result, query) ==
    LET base == IF result.distance # None THEN 1000 - result.distance[1] ELSE 500
        queryTokens == SplitWS(ToLower(query))
        matched == Cardinality({i \in 1..Len(queryTokens) :
                                   Includes(ToLower(result.content), queryTokens[i])})
        importance == IF result.importance # None THEN result.importance[1] ELSE 0
        verbatim == IF Includes(ToLower(result.content), ToLower(query)) THEN 300 ELSE 0
        boosted == base + (300 * matched) \div Len(queryTokens)
                        + (200 * importance) \div 1000 + verbatim
        wordCount == IF Truthy(result.wordCount) THEN result.wordCount[1]
                     ELSE Len(SplitWS(result.content))
    IN  MinOf(IF wordCount < 20 \/ wordCount > 500 THEN (boosted * 8) \div 10 ELSE boosted,
              1000)

\* C23: the relevance calculateRelevanceScore returns starts from
\* 1 - distance for every distance the store supplied, 0 included, adds
\* 0.3 * matched / total query tokens, 0.2 * importance and 0.3 for a verbatim
\* query, and is multiplied by 0.8 for a word count outside [20, 500]
C23_RelevanceStartsFromSuppliedDistance ==
    rankPc = "done" => relevanceScore = Some(ClaimedRelevance(rankResult, rankQuery))

\* C24: in the chunk sequence a segmentation call returns, the start offset
\* and the end offset both strictly increase with the sequence index
C24_OffsetsStrictlyIncrease ==
    chunkPc = "done" =>
        \A k \in 1..(Len(chunks) - 1) :
            /\ chunks[k].start < chunks[k + 1].start
            /\ chunks[k].end < chunks[k + 1].end

\* The trimmed text of the window the next iteration of a fixed-window
\* chunker looks at
WindowText ==
    Trim(Slice(Chars(text), start, ChunkEnd(chunker, Chars(text), start, maxChunkSize)))

\* C25: an iteration of a fixed-window chunker emits its window as a chunk
\* exactly when the trimmed text of the window has at least 50 characters
C25_EmittedExactlyFromFiftyCharacters ==
    [][(chunkPc = "loop" /\ iteration' = iteration + 1)
          => (Len(WindowText) >= 50 <=> Len(chunks') = Len(chunks) + 1)]_vars

\* An iteration of a fixed-window chunker moves start forward
StartIncreases == (chunkPc = "loop" /\ iteration' = iteration + 1) => start' > start

\* C26: start strictly increases on every iteration of the fixed-window
\* chunkers, also with overlap >= maxChunkSize, with a maxChunkSize that is
\* not positive and on texts without a sentence end, so the loop makes at
\* most |text| iterations
C26_StartIncreasesLoopBounded ==
    /\ [][StartIncreases]_vars
    /\ [](/\ iteration <= start
          /\ iteration <= Len(Chars(text))
          /\ (chunkPc = "loop" /\ Len(Chars(text)) > 0) => start < Len(Chars(text)))

\* A call with overlap >= maxChunkSize on a text of letters has returned
\* after one iteration per character
C26_Witness_OneIterationPerCharacter ==
    /\ chunkPc = "done"
    /\ overlap >= maxChunkSize
    /\ maxChunkSize > 0
    /\ text = Runs(RunOf("x", PieceLen))
    /\ iteration = PieceLen
    /\ start = PieceLen
    /\ Len(chunks) > 1

\* C27: between the end of the retrieval and the final result list the
\* call has no suspension point and no collaborator call that can fail: the
\* step that ends the retrieval leads to the selection (or is a failed search)
C27_RankingNeverFailsOrWaits ==
    /\ [][(enhPc = "searching" /\ enhPc' # "searching")
             => enhPc' \in {"selecting", "failed"}]_vars
    /\ [](enhFailure # "embedding")

\* C28: one call of enhancedSearchPDFContent searches at most 3 query
\* variations, the first 3 when the refiner returned more; in
\* searchPDFContentAdvanced the vector query and the BM25 query are issued
\* together, before the call waits for either, and the lists are fused only
\* when both queries have resolved
C28_ThreeVariationsQueriesJoined ==
    /\ searchIndex <= 3
    /\ enhPc \in {"ranking", "selecting", "synthesizing", "returned"}
          => searchIndex = MinOf(3, Len(enhQueryVariations))
    /\ vectorCall.state = "idle" <=> keywordCall.state = "idle"
    /\ advPc = "searching" => (vectorCall.state # "idle" /\ keywordCall.state # "idle")
    /\ (advFused # None \/ advResults # None \/ advPc = "returned")
          => (vectorCall.state = "resolved" /\ keywordCall.state = "resolved")

\* An advanced search has fused two non-empty lists, and an enhanced search
\* whose refiner returned 4 variations has returned after 3 searches
C28_Witness_FourVariationsThreeSearched ==
    /\ advPc = "returned"
    /\ Len(advFused[1][1]) > 0
    /\ Len(advFused[1][2]) > 0
    /\ enhPc = "returned"
    /\ Len(enhQueryVariations) = 4
    /\ searchIndex = 3
    /\ Len(allResults) > 0

\* The objects built so far, as <<batch, position in the batch>>
BuiltObjects == {<<b, k>> \in (1..Len(batchRun)) \X (1..batchSize) : k <= Len(batchRun[b].objects)}

\* C29: in whatever order the batches of a wave complete, every chunk is
\* sent with chunkIndex equal to its position in the chunk list, no two
\* chunks of the document get the same chunkIndex, and on a successful
\* return the stored-chunk counter is the number of chunks
C29_ChunkIndexIsPosition ==
    /\ \A o \in BuiltObjects :
          batchRun[o[1]].objects[o[2]].chunkIndex = batchRun[o[1]].objects[o[2]].chunk
    /\ \A o, p \in BuiltObjects :
          batchRun[o[1]].objects[o[2]].chunkIndex = batchRun[p[1]].objects[p[2]].chunkIndex
              => o = p
    /\ ingPc = "returned" => (storedChunks = chunkCount /\ Cardinality(BuiltObjects) = chunkCount)

\* A document of two waves has been stored: the first chunk of the second
\* wave was sent with chunkIndex 15
C29_Witness_TwoWavesStored ==
    /\ ingPc = "returned"
    /\ chunkCount = MaxIngestChunks
    /\ storedChunks = MaxIngestChunks
    /\ Len(batchRun) > concurrencyLimit
    /\ batchRun[concurrencyLimit + 1].objects[1].chunkIndex = concurrencyLimit * batchSize

\* The end of a window was moved to a break point
Snapped(chunk) == chunk.end # WindowEnd(Chars(text), chunk.start, maxChunkSize)

\* C30: every chunk of the fixed-window chunkers spans at most maxChunkSize
\* characters, and an end that was snapped to a sentence boundary lies in
\* (start + maxChunkSize / 2, start + maxChunkSize]
C30_SpanWithinWindow ==
    chunker \in {"basic", "enhanced"} =>
        \A k \in 1..Len(chunks) :
            /\ chunks[k].end - chunks[k].start <= maxChunkSize
            /\ Snapped(chunks[k]) =>
                  /\ 2 * chunks[k].end > 2 * chunks[k].start + maxChunkSize
                  /\ chunks[k].end <= chunks[k].start + maxChunkSize

============================================================================
